---------------------------- MODULE Spec2Model ----------------------------
(***************************************************************************)
(* WobblyWorm: the continuous-space worm game (Game, Snake, Food,          *)
(* FoodManager, InputHandler, CollisionDetector, SpatialGrid, and the      *)
(* session and score requests Game.submitScore uses) as a state machine.   *)
(*                                                                         *)
(* Numbers.  The program computes in float64; the model computes in fixed  *)
(* point with these units:                                                 *)
(*   length  1/PX pixel (PX = 30), so that one frame of MAX_DELTA_TIME at  *)
(*           a speed that is a multiple of 10 px/s is a whole number;      *)
(*   time    1/60 s, so MAX_DELTA_TIME (1000/30 ms) is 2 and a 60 Hz frame *)
(*           is 1;                                                         *)
(*   angle   a heading is the pair [q, j] standing for q*pi/4 + j/12 rad:  *)
(*           the eight key directions are the multiples of pi/4 and the    *)
(*           worm turns turningSpeed * (1/60 s) = 1/12 rad per time unit;  *)
(*   unit vectors are scaled by DIRSCALE.                                  *)
(*                                                                         *)
(* Left out: what only the renderer reads (Food.rotationAngle, colours,    *)
(* particles, the DOM text of updateUI) and the clock values               *)
(* (gameStartTime, lastFrameTime).                                         *)
(***************************************************************************)
EXTENDS Integers, Sequences, FiniteSets, TLC

PX == 30
DIRSCALE == 10000
SQRT_HALF == 7071

\* GAME_CONFIG, FOOD_VALUES, PHYSICS_CONSTANTS (utils/Constants)
CANVAS_WIDTH == 800
CANVAS_HEIGHT == 600
INITIAL_SPEED == 100
SEGMENT_RADIUS == 8
INITIAL_LENGTH == 5
GROWTH_RATE == 2
FOOD_RADIUS == 6
MAX_FOOD_COUNT == 3
turningSpeed == 5

\* milliseconds in time units of 1/60 s
Ms(t) == (t * 60) \div 1000

SPAWN_INTERVAL == Ms(3000)
MAX_DELTA_TIME == Ms(1000) \div 30
\* 0.1 px
COLLISION_TOLERANCE == PX \div 10

WIDTH == CANVAS_WIDTH * PX
HEIGHT == CANVAS_HEIGHT * PX
radius == SEGMENT_RADIUS * PX
segmentSpacing == radius * 2

---------------------------------------------------------------------------
(* Vector2D and MathUtils *)

Vec(x, y) == [x |-> x, y |-> y]

add(a, b) == Vec(a.x + b.x, a.y + b.y)

subtract(a, b) == Vec(a.x - b.x, a.y - b.y)

magnitudeSquared(a) == a.x * a.x + a.y * a.y

distanceSquared(a, b) == magnitudeSquared(subtract(a, b))

dot(a, b) == a.x * b.x + a.y * b.y

\* a / b rounded to the nearest integer, b > 0
RDiv(a, b) == (2 * a + b) \div (2 * b)

RECURSIVE SqrtSearch(_, _, _)
SqrtSearch(n, lo, hi) ==
    IF lo >= hi THEN lo
    ELSE LET mid == (lo + hi + 1) \div 2
         IN  IF mid * mid <= n THEN SqrtSearch(n, mid, hi)
             ELSE SqrtSearch(n, lo, mid - 1)

\* Math.sqrt, rounded down
Sqrt(n) == SqrtSearch(n, 0, 46340)

magnitude(a) == Sqrt(magnitudeSquared(a))

\* a * (num / den) per component: the scalar num/den applied to a vector
scale(a, num, den) == Vec(RDiv(a.x * num, den), RDiv(a.y * num, den))

\* normalize() of a vector whose unit length is DIRSCALE
normalize(a) ==
    LET mag == magnitude(a)
    IN  IF mag = 0 THEN Vec(0, 0) ELSE scale(a, DIRSCALE, mag)

clamp(value, min, max) ==
    LET lower == IF value > min THEN value ELSE min
    IN  IF lower < max THEN lower ELSE max

---------------------------------------------------------------------------
(* Angles.  ANG4 is pi/4 and ANG12 is 1/12 rad, in microradians; they are  *)
(* used only to compare angles, and a sum q*pi/4 + j/12 is never within a  *)
(* microradian of another one unless it has the same q and j.              *)

ANG4 == 785398
ANG12 == 83333
PI == 4 * ANG4

\* cos(j/12) and sin(j/12) scaled by DIRSCALE, for j = 0..76 (index j+1)
COS12 ==
    <<
       10000, 9965, 9861, 9689, 9450, 9144, 8776, 8346, 7859, 7317, 6724,
       6085, 5403, 4684, 3932, 3153, 2352, 1535, 707, -125, -957, -1782,
       -2595, -3390, -4161, -4904, -5612, -6282, -6908, -7485, -8011, -8482, -8893,
       -9243, -9529, -9748, -9900, -9983, -9997, -9941, -9817, -9624, -9365, -9040,
       -8653, -8206, -7701, -7144, -6536, -5884, -5190, -4461, -3700, -2914, -2108,
       -1287, -457, 376, 1206, 2029, 2837, 3625, 4388, 5121, 5818, 6475,
       7087, 7649, 8159, 8612, 9005, 9336, 9602, 9801, 9932, 9994, 9987
    >>

SIN12 ==
    <<
       0, 832, 1659, 2474, 3272, 4047, 4794, 5508, 6184, 6816, 7402,
       7936, 8415, 8835, 9194, 9490, 9719, 9881, 9975, 9999, 9954, 9840,
       9657, 9408, 9093, 8715, 8277, 7781, 7231, 6631, 5985, 5297, 4573,
       3817, 3034, 2230, 1411, 582, -251, -1082, -1906, -2716, -3508, -4275,
       -5013, -5716, -6379, -6998, -7568, -8086, -8548, -8950, -9290, -9566, -9775,
       -9917, -9990, -9993, -9927, -9792, -9589, -9320, -8986, -8589, -8133, -7621,
       -7055, -6441, -5782, -5083, -4348, -3584, -2794, -1985, -1163, -332, 501
    >>

Heading(q, j) == [q |-> q % 8, j |-> j]

\* Vector2D.right(), down(), left(), up() and the diagonals, as headings
right == Heading(0, 0)
down == Heading(2, 0)
left == Heading(4, 0)
up == Heading(6, 0)

RECURSIVE QuarterTurns(_, _)
QuarterTurns(v, n) ==
    IF n = 0 THEN v ELSE QuarterTurns(Vec(-v.y, v.x), n - 1)

\* Vector2D.fromAngle(q*pi/4 + j/12): (cos, sin) scaled by DIRSCALE
fromAngle(h) ==
    LET a == IF h.j >= 0 THEN h.j ELSE -h.j
        base == Vec(COS12[a + 1], IF h.j >= 0 THEN SIN12[a + 1] ELSE -SIN12[a + 1])
        v == QuarterTurns(base, h.q \div 2)
    IN  IF h.q % 2 = 0 THEN v
        ELSE Vec(RDiv((v.x - v.y) * SQRT_HALF, DIRSCALE),
                 RDiv((v.x + v.y) * SQRT_HALF, DIRSCALE))

RECURSIVE WrapDown(_)
WrapDown(diff) == IF diff > PI THEN WrapDown(diff - 2 * PI) ELSE diff

RECURSIVE WrapUp(_)
WrapUp(diff) == IF diff < -PI THEN WrapUp(diff + 2 * PI) ELSE diff

\* Vector2D.angle(): atan2 of the heading's vector, in (-pi, pi]
angle(h) ==
    LET a == WrapUp(WrapDown(h.q * ANG4 + h.j * ANG12))
    IN  IF a = -PI THEN PI ELSE a

\* MathUtils.angleDistance
angleDistance(angle1, angle2) == WrapUp(WrapDown(angle2 - angle1))

---------------------------------------------------------------------------
(* Snake *)

initializeSegments(startPosition) ==
    [i \in 1..INITIAL_LENGTH |->
        Vec(startPosition.x - (i - 1) * segmentSpacing, startPosition.y)]

\* new Snake(startPosition)
NewSnake(startPosition) ==
    [segments |-> initializeSegments(startPosition),
     direction |-> right,
     targetDirection |-> right,
     speed |-> INITIAL_SPEED,
     isAlive |-> TRUE]

getHead(s) == IF Len(s.segments) > 0 THEN s.segments[1] ELSE Vec(0, 0)

getLength(s) == Len(s.segments)

\* The heading after one updateDirection: the turn is angleDiff clamped to
\* +-maxTurnAngle; when the clamp leaves angleDiff as it is the new angle is
\* the target's, otherwise it is dt time units of 1/12 rad further.
updateDirection(s, deltaTime) ==
    LET angleDiff == angleDistance(angle(s.direction), angle(s.targetDirection))
        \* turningSpeed rad/s for deltaTime/60 s, in units of ANG12 = 1/12 rad
        maxTurnAngle == ((turningSpeed * deltaTime * 12) \div 60) * ANG12
        turnAngle == clamp(angleDiff, -maxTurnAngle, maxTurnAngle)
    IN  [s EXCEPT !.direction =
            IF turnAngle = angleDiff THEN s.targetDirection
            ELSE IF turnAngle > 0 THEN Heading(s.direction.q, s.direction.j + deltaTime)
            ELSE Heading(s.direction.q, s.direction.j - deltaTime)]

\* moveSegments without the pull of the leaders
followTheLeaderNoPull(segments, i) == segments

RECURSIVE followTheLeader(_, _)
followTheLeader(segments, i) ==
    IF i > Len(segments) THEN segments
    ELSE LET leader == segments[i - 1]
             follower == segments[i]
             toLeader == subtract(leader, follower)
             dist == magnitude(toLeader)
         IN  IF magnitudeSquared(toLeader) > segmentSpacing * segmentSpacing
             THEN CHOOSE followed \in
                      {followTheLeader(pulled, i + 1) :
                          pulled \in {[segments EXCEPT ![i] =
                                          add(follower,
                                              scale(toLeader, dist - segmentSpacing,
                                                    dist))]}} : TRUE
             ELSE followTheLeader(segments, i + 1)

moveSegments(s, deltaTime) ==
    LET moveDistance == RDiv(s.speed * deltaTime * PX, 60)
        movement == scale(fromAngle(s.direction), moveDistance, DIRSCALE)
        moved == [s.segments EXCEPT ![1] = add(s.segments[1], movement)]
    IN  CHOOSE t \in {[s EXCEPT !.segments = followTheLeader(m, 2)] : m \in {moved}} : TRUE

\* The self-collision test taken from the neck on, whatever the length
selfCollisionHitFromNeck(s) ==
    \E i \in 2..Len(s.segments) :
        distanceSquared(getHead(s), s.segments[i]) < (radius * 2) * (radius * 2)

\* TRUE when the head is closer than 2 * radius to a segment of index >= 3
\* (0-based), i.e. position >= 4 of the sequence
selfCollisionHit(s) ==
    /\ Len(s.segments) >= 4
    /\ \E i \in 4..Len(s.segments) :
          distanceSquared(getHead(s), s.segments[i]) < (radius * 2) * (radius * 2)

\* checkSelfCollision(): [hit, snake]
checkSelfCollision(s) ==
    IF selfCollisionHit(s)
    THEN [hit |-> TRUE, snake |-> [s EXCEPT !.isAlive = FALSE]]
    ELSE [hit |-> FALSE, snake |-> s]

\* Snake.update(deltaTime)
\* Snake.update without its isAlive guard
SnakeUpdateUnguarded(s, deltaTime) ==
    checkSelfCollision(moveSegments(updateDirection(s, deltaTime), deltaTime)).snake

\* (the worm after each of the three calls is bound as a value)
SnakeUpdate(s, deltaTime) ==
    IF ~s.isAlive THEN s
    ELSE CHOOSE t \in {checkSelfCollision(m).snake :
                          m \in {moveSegments(d, deltaTime) :
                                    d \in {updateDirection(s, deltaTime)}}} : TRUE

\* Snake.turn(newDirection), newDirection one of the eight key directions
turn(s, newDirection) ==
    LET oppositeDirection == scale(fromAngle(s.direction), -1, 1)
        d == dot(fromAngle(newDirection), oppositeDirection)
    IN  IF 10 * d < 8 * DIRSCALE * DIRSCALE
        THEN [s EXCEPT !.targetDirection = newDirection]
        ELSE s

\* normalize() of v, times len: the zero vector stays the zero vector
normalizedTimes(v, len) ==
    IF magnitudeSquared(v) = 0 THEN Vec(0, 0) ELSE scale(v, len, magnitude(v))

RECURSIVE growLoop(_, _, _, _)
growLoop(segments, tail, dir, i) ==
    IF i >= GROWTH_RATE THEN segments
    ELSE LET n == Len(segments)
             newSegmentPos ==
                IF n > 1
                THEN LET secondToLast == segments[n - 1]
                         tailDirection == subtract(tail, secondToLast)
                     IN  subtract(tail,
                            normalizedTimes(tailDirection, segmentSpacing * (i + 1)))
                ELSE add(tail, scale(fromAngle(dir), -(segmentSpacing * (i + 1)), DIRSCALE))
         IN  growLoop(Append(segments, newSegmentPos), tail, dir, i + 1)

\* Snake.grow()
grow(s) ==
    IF Len(s.segments) = 0 THEN s
    ELSE [s EXCEPT !.segments =
            growLoop(s.segments, s.segments[Len(s.segments)], s.direction, 0)]

\* The boundary test without the right and bottom edges
headOutsideLeftTop(head, canvasWidth, canvasHeight) ==
    \/ head.x - radius < 0
    \/ head.y - radius < 0

headOutside(head, canvasWidth, canvasHeight) ==
    \/ head.x - radius < 0
    \/ head.x + radius > canvasWidth
    \/ head.y - radius < 0
    \/ head.y + radius > canvasHeight

\* checkBoundaryCollision(canvasWidth, canvasHeight): [hit, snake]
checkBoundaryCollision(s, canvasWidth, canvasHeight) ==
    IF headOutside(getHead(s), canvasWidth, canvasHeight)
    THEN [hit |-> TRUE, snake |-> [s EXCEPT !.isAlive = FALSE]]
    ELSE [hit |-> FALSE, snake |-> s]

RECURSIVE adjustSegmentsAfterWrap(_, _)
adjustSegmentsAfterWrap(segments, i) ==
    IF i > Len(segments) THEN segments
    ELSE LET leader == segments[i - 1]
             follower == segments[i]
         IN  IF distanceSquared(leader, follower)
                   > (segmentSpacing * 3) * (segmentSpacing * 3)
             THEN adjustSegmentsAfterWrap(
                    [segments EXCEPT ![i] =
                        subtract(leader,
                                 normalizedTimes(subtract(leader, follower),
                                                 segmentSpacing))],
                    i + 1)
             ELSE adjustSegmentsAfterWrap(segments, i + 1)

\* wrapAroundBounds(canvasWidth, canvasHeight)
wrapAroundBounds(s, canvasWidth, canvasHeight) ==
    LET head == getHead(s)
        x == IF head.x < -radius THEN canvasWidth + radius
             ELSE IF head.x > canvasWidth + radius THEN -radius
             ELSE head.x
        y == IF head.y < -radius THEN canvasHeight + radius
             ELSE IF head.y > canvasHeight + radius THEN -radius
             ELSE head.y
        wrapped == \/ head.x < -radius
                   \/ head.x > canvasWidth + radius
                   \/ head.y < -radius
                   \/ head.y > canvasHeight + radius
    IN  IF wrapped
        THEN [s EXCEPT !.segments =
                adjustSegmentsAfterWrap([s.segments EXCEPT ![1] = Vec(x, y)], 2)]
        ELSE s

\* Snake.reset that leaves the speed as it is
SnakeResetKeepSpeed(s, startPosition) ==
    [s EXCEPT !.isAlive = TRUE,
              !.direction = right,
              !.targetDirection = right,
              !.segments = initializeSegments(startPosition)]

\* Snake.reset(startPosition)
SnakeReset(s, startPosition) ==
    [s EXCEPT !.isAlive = TRUE,
              !.direction = right,
              !.targetDirection = right,
              !.speed = INITIAL_SPEED,
              !.segments = initializeSegments(startPosition)]

increaseSpeed(s, amount) == [s EXCEPT !.speed = s.speed + amount]

getScore(s) ==
    LET extra == Len(s.segments) - INITIAL_LENGTH
    IN  (IF extra > 0 THEN extra ELSE 0) * 10

---------------------------------------------------------------------------
(* Food *)

FoodTypes == {"normal", "bonus", "speed"}

FOOD_VALUES == [normal |-> 10, bonus |-> 50, speed |-> 25]

baseRadius == FOOD_RADIUS * PX

maxAnimationTime == Ms(2000)

\* sin(2 * pi * k / 60) scaled by DIRSCALE, for k = 0..59 (index k+1)
SINE60 ==
    <<
       0, 1045, 2079, 3090, 4067, 5000, 5878, 6691, 7431, 8090, 8660,
       9135, 9511, 9781, 9945, 10000, 9945, 9781, 9511, 9135, 8660, 8090,
       7431, 6691, 5878, 5000, 4067, 3090, 2079, 1045, 0, -1045, -2079,
       -3090, -4067, -5000, -5878, -6691, -7431, -8090, -8660, -9135, -9511, -9781,
       -9945, -10000, -9945, -9781, -9511, -9135, -8660, -8090, -7431, -6691, -5878,
       -5000, -4067, -3090, -2079, -1045
    >>

\* setPropertiesForType
radiusForType(type) ==
    CASE type = "normal" -> baseRadius
      [] type = "bonus" -> (baseRadius * 13) \div 10
      [] type = "speed" -> (baseRadius * 8) \div 10

\* new Food(type): inactive, at the origin, pulseScale 1 (scaled by DIRSCALE)
NewFood(type) ==
    [position |-> Vec(0, 0),
     radius |-> radiusForType(type),
     value |-> FOOD_VALUES[type],
     type |-> type,
     isActive |-> FALSE,
     animationTime |-> 0,
     pulseScale |-> DIRSCALE]

maxAttempts == 50

\* The while condition of spawn with one attempt more in the budget
keepSamplingOneMore(attempts, tooClose) == attempts < maxAttempts + 1 /\ tooClose

\* The while condition of spawn
keepSampling(attempts, tooClose) == attempts < maxAttempts /\ tooClose

\* The range generateRandomPosition samples: [lo, hi] per axis (MathUtils.random
\* with min > max samples between max and min)
sampleRange(food, bounds) ==
    LET padding == food.radius * 2
        x1 == bounds.x + padding
        x2 == bounds.x + bounds.width - padding
        y1 == bounds.y + padding
        y2 == bounds.y + bounds.height - padding
    IN  [xlo |-> IF x1 < x2 THEN x1 ELSE x2, xhi |-> IF x1 < x2 THEN x2 ELSE x1,
         ylo |-> IF y1 < y2 THEN y1 ELSE y2, yhi |-> IF y1 < y2 THEN y2 ELSE y1]

inRange(p, r) == r.xlo <= p.x /\ p.x <= r.xhi /\ r.ylo <= p.y /\ p.y <= r.yhi

\* generateRandomPosition: the points of samples (what Math.random may give)
\* that lie in the padded bounds
generateRandomPosition(food, bounds, samples) ==
    {p \in samples : inRange(p, sampleRange(food, bounds))}

\* isPositionTooClose with half the clearance
isPositionTooCloseHalf(food, p, existingPositions) ==
    LET minDistance == food.radius * 2
    IN  \E i \in 1..Len(existingPositions) :
           distanceSquared(p, existingPositions[i]) < minDistance * minDistance

\* isPositionTooClose at position p
isPositionTooClose(food, p, existingPositions) ==
    LET minDistance == food.radius * 4
    IN  \E i \in 1..Len(existingPositions) :
           distanceSquared(p, existingPositions[i]) < minDistance * minDistance

\* Some point of the padded bounds is too close to an existing position: only
\* then can all the attempts but the last be rejected
rejectionPossible(food, bounds, existingPositions) ==
    LET r == sampleRange(food, bounds)
    IN  \E i \in 1..Len(existingPositions) :
           LET e == existingPositions[i]
               nearest == Vec(clamp(e.x, r.xlo, r.xhi), clamp(e.y, r.ylo, r.yhi))
           IN  isPositionTooClose(food, nearest, <<e>>)

\* Food.spawn(bounds, existingPositions): the foods it can leave, rnd being
\* what Math.random may give ([types, samples, phases]).  The loop stops at
\* the first sample that is not too close, or at the 50th sample whatever it
\* is.
spawn(food, bounds, existingPositions, rnd) ==
    {[food EXCEPT !.position = p, !.isActive = TRUE, !.animationTime = t] :
        p \in {c \in generateRandomPosition(food, bounds, rnd.samples) :
                 \/ ~isPositionTooClose(food, c, existingPositions)
                 \/ rejectionPossible(food, bounds, existingPositions)},
        t \in rnd.phases}

\* Food.update(deltaTime)
FoodUpdate(food, deltaTime) ==
    IF ~food.isActive THEN food
    ELSE LET advanced == food.animationTime + deltaTime
             animationTime == IF advanced > maxAnimationTime THEN 0 ELSE advanced
             \* 1 + sin(pulseProgress * 4 pi) * 0.2
             pulseScale == DIRSCALE + RDiv(SINE60[(animationTime % 60) + 1] * 2, 10)
         IN  [food EXCEPT !.animationTime = animationTime, !.pulseScale = pulseScale]

getEffectiveRadius(food) == RDiv(food.radius * food.pulseScale, DIRSCALE)

\* Food.checkCollision without the isActive test
FoodCheckCollisionAnyState(food, point, collisionRadius) ==
    LET reach == getEffectiveRadius(food) + collisionRadius
    IN  distanceSquared(food.position, point) < reach * reach

\* Food.checkCollision(point, collisionRadius)
FoodCheckCollision(food, point, collisionRadius) ==
    /\ food.isActive
    /\ LET totalRadius == getEffectiveRadius(food) + collisionRadius
       IN  distanceSquared(food.position, point) <= totalRadius * totalRadius

consume(food) == [food EXCEPT !.isActive = FALSE]

---------------------------------------------------------------------------
(* FoodManager: [foods, lastSpawnTime, bounds] *)

NewFoodManager(bounds) == [foods |-> <<>>, lastSpawnTime |-> 0, bounds |-> bounds]

\* shouldSpawnFood without the timer
shouldSpawnFoodUntimed(fm) == Len(fm.foods) < MAX_FOOD_COUNT

\* shouldSpawnFood that waits for the last food to go
shouldSpawnFoodWhenEmpty(fm) ==
    /\ fm.lastSpawnTime >= SPAWN_INTERVAL
    /\ Len(fm.foods) = 0

shouldSpawnFood(fm) ==
    /\ fm.lastSpawnTime >= SPAWN_INTERVAL
    /\ Len(fm.foods) < MAX_FOOD_COUNT

existingPositions(fm, snakeSegments) ==
    snakeSegments \o [i \in 1..Len(fm.foods) |-> fm.foods[i].position]

\* spawnNewFood(snakeSegments): the managers it can leave
spawnNewFood(fm, snakeSegments, rnd) ==
    {[fm EXCEPT !.foods = Append(fm.foods, f)] :
        f \in UNION {spawn(NewFood(type), fm.bounds,
                           existingPositions(fm, snakeSegments), rnd) :
                     type \in rnd.types}}

\* foods.filter(food => food.isActive)
RECURSIVE activeOnly(_)
activeOnly(foods) ==
    IF foods = <<>> THEN <<>>
    ELSE IF Head(foods).isActive THEN <<Head(foods)>> \o activeOnly(Tail(foods))
    ELSE activeOnly(Tail(foods))

\* FoodManager.update(deltaTime, snakeSegments): the managers it can leave
FoodManagerUpdate(fm, deltaTime, snakeSegments, rnd) ==
    LET updated == [i \in 1..Len(fm.foods) |-> FoodUpdate(fm.foods[i], deltaTime)]
        kept == [fm EXCEPT !.foods = activeOnly(updated),
                           !.lastSpawnTime = fm.lastSpawnTime + deltaTime]
    IN  UNION {IF shouldSpawnFood(k)
               THEN {[m EXCEPT !.lastSpawnTime = 0] :
                        m \in spawnNewFood(k, snakeSegments, rnd)}
               ELSE {k} : k \in {kept}}

\* The index of the first food that collides, 0 when there is none
firstCollision(fm, point, collisionRadius) ==
    LET hits == {i \in 1..Len(fm.foods) :
                    FoodCheckCollision(fm.foods[i], point, collisionRadius)}
    IN  IF hits = {} THEN 0 ELSE CHOOSE i \in hits : \A k \in hits : i <= k

\* checkCollisions consuming every food that collides
consumeAllCollisions(fm, point, collisionRadius) ==
    [eaten |-> firstCollision(fm, point, collisionRadius),
     fm |-> [fm EXCEPT !.foods =
                [i \in 1..Len(fm.foods) |->
                    IF FoodCheckCollision(fm.foods[i], point, collisionRadius)
                    THEN consume(fm.foods[i]) ELSE fm.foods[i]]]]

\* FoodManager.checkCollisions(point, radius): [eaten (index or 0), fm]
FoodManagerCheckCollisions(fm, point, collisionRadius) ==
    LET i == firstCollision(fm, point, collisionRadius)
    IN  IF i = 0 THEN [eaten |-> 0, fm |-> fm]
        ELSE [eaten |-> i, fm |-> [fm EXCEPT !.foods[i] = consume(fm.foods[i])]]

FoodManagerReset(fm) == [fm EXCEPT !.foods = <<>>, !.lastSpawnTime = 0]

\* forceSpawn without its count guard
forceSpawnUnguarded(fm, snakeSegments, rnd) == spawnNewFood(fm, snakeSegments, rnd)

\* forceSpawn(snakeSegments): the managers it can leave
forceSpawn(fm, snakeSegments, rnd) ==
    IF Len(fm.foods) < MAX_FOOD_COUNT
    THEN spawnNewFood(fm, snakeSegments, rnd)
    ELSE {fm}

---------------------------------------------------------------------------
(* CollisionDetector *)

\* circleToCircle(...).occurred: distance <= radius1 + radius2 + tolerance
circleToCircle(center1, radius1, center2, radius2) ==
    LET reach == radius1 + radius2 + COLLISION_TOLERANCE
    IN  distanceSquared(center1, center2) <= reach * reach

\* snakeSelfCollision(snake).occurred
snakeSelfCollision(s) ==
    /\ Len(s.segments) >= 4
    /\ \E i \in 4..Len(s.segments) :
          circleToCircle(getHead(s), radius, s.segments[i], radius)

---------------------------------------------------------------------------
(* SpatialGrid: [grid, cellSize, bounds].  grid is the Map from the key     *)
(* strings to the arrays of points; a string is the sequence of its         *)
(* characters.  Coordinates, cellSize and radius are whole numbers of one   *)
(* length unit.                                                             *)

Digits == <<"0", "1", "2", "3", "4", "5", "6", "7", "8", "9">>

\* String(n) of a whole number, as a template literal writes it
RECURSIVE numberToString(_)
numberToString(n) ==
    IF n < 0 THEN <<"-">> \o numberToString(-n)
    ELSE IF n < 10 THEN <<Digits[n + 1]>>
    ELSE numberToString(n \div 10) \o <<Digits[(n % 10) + 1]>>

RECURSIVE digitsToNumber(_)
digitsToNumber(str) ==
    IF str = <<>> THEN 0
    ELSE digitsToNumber(SubSeq(str, 1, Len(str) - 1)) * 10
         + (CHOOSE d \in 0..9 : Digits[d + 1] = str[Len(str)])

\* Number(str) of the decimal string of a whole number
stringToNumber(str) ==
    IF str[1] = "-" THEN -digitsToNumber(Tail(str)) ELSE digitsToNumber(str)

\* key.split(','): the parts before and after the comma
split(key) ==
    LET c == CHOOSE i \in 1..Len(key) : key[i] = ","
    IN  <<SubSeq(key, 1, c - 1), SubSeq(key, c + 1, Len(key))>>

NewSpatialGrid(bounds, cellSize) ==
    [grid |-> [k \in {} |-> <<>>], cellSize |-> cellSize, bounds |-> bounds]

\* Math.floor((position - origin) / cellSize) per axis, as `${gridX},${gridY}`
getGridKey(sg, position) ==
    LET gridX == (position.x - sg.bounds.x) \div sg.cellSize
        gridY == (position.y - sg.bounds.y) \div sg.cellSize
    IN  numberToString(gridX) \o <<",">> \o numberToString(gridY)

clear(sg) == [sg EXCEPT !.grid = [k \in {} |-> <<>>]]

insert(sg, position) ==
    LET key == getGridKey(sg, position)
    IN  [sg EXCEPT !.grid =
            [k \in DOMAIN sg.grid \cup {key} |->
                IF k = key
                THEN (IF key \in DOMAIN sg.grid THEN sg.grid[key] ELSE <<>>)
                     \o <<position>>
                ELSE sg.grid[k]]]

\* Math.floor(radius / cellSize) in the place of Math.ceil
cellRadiusFloor(r, cellSize) == r \div cellSize

\* Math.ceil(radius / cellSize)
cellRadius(r, cellSize) == (r + cellSize - 1) \div cellSize

\* The two loops of getNearbyPoints, n counting the cells visited: dx is the
\* outer index, dy the inner one
RECURSIVE nearbyLoop(_, _, _, _, _, _)
nearbyLoop(sg, centerX, centerY, cells, n, nearby) ==
    LET side == 2 * cells + 1
        dx == (n \div side) - cells
        dy == (n % side) - cells
        key == numberToString(centerX + dx) \o <<",">> \o numberToString(centerY + dy)
    IN  IF n >= side * side THEN nearby
        ELSE nearbyLoop(sg, centerX, centerY, cells, n + 1,
                        IF key \in DOMAIN sg.grid THEN nearby \o sg.grid[key]
                        ELSE nearby)

getNearbyPoints(sg, position, r) ==
    LET center == split(getGridKey(sg, position))
    IN  nearbyLoop(sg, stringToNumber(center[1]), stringToNumber(center[2]),
                   cellRadius(r, sg.cellSize), 0, <<>>)

---------------------------------------------------------------------------
(* InputHandler: [keyStates, previousKeyStates, inputState].  The two maps *)
(* are read only through get(key) || false, so each is kept as the set of  *)
(* the keys it maps to true.                                               *)

Keys ==
    {"ArrowUp", "ArrowDown", "ArrowLeft", "ArrowRight", "KeyW", "KeyA", "KeyS", "KeyD",
     "Space", "KeyR", "Equal", "Minus"}

noInput ==
    [up |-> FALSE, down |-> FALSE, left |-> FALSE, right |-> FALSE,
     space |-> FALSE, reset |-> FALSE]

NewInputHandler == [keyStates |-> {}, previousKeyStates |-> {}, inputState |-> noInput]

isKeyPressed(ih, keyCode) == keyCode \in ih.keyStates

setKeyState(ih, keyCode, pressed) ==
    [ih EXCEPT !.keyStates = IF pressed THEN @ \cup {keyCode} ELSE @ \ {keyCode}]

\* updateInputState that reads the arrow keys only
updateInputStateArrowsOnly(ih) ==
    [ih EXCEPT !.inputState =
        [up |-> isKeyPressed(ih, "ArrowUp"),
         down |-> isKeyPressed(ih, "ArrowDown"),
         left |-> isKeyPressed(ih, "ArrowLeft"),
         right |-> isKeyPressed(ih, "ArrowRight"),
         space |-> isKeyPressed(ih, "Space"),
         reset |-> isKeyPressed(ih, "KeyR")]]

updateInputState(ih) ==
    [ih EXCEPT !.inputState =
        [up |-> isKeyPressed(ih, "ArrowUp") \/ isKeyPressed(ih, "KeyW"),
         down |-> isKeyPressed(ih, "ArrowDown") \/ isKeyPressed(ih, "KeyS"),
         left |-> isKeyPressed(ih, "ArrowLeft") \/ isKeyPressed(ih, "KeyA"),
         right |-> isKeyPressed(ih, "ArrowRight") \/ isKeyPressed(ih, "KeyD"),
         space |-> isKeyPressed(ih, "Space"),
         reset |-> isKeyPressed(ih, "KeyR")]]

handleKeyDown(ih, keyCode) == updateInputState(setKeyState(ih, keyCode, TRUE))

handleKeyUp(ih, keyCode) == updateInputState(setKeyState(ih, keyCode, FALSE))

\* getDirectionVector: [mag, h], mag = 0 for the zero vector, otherwise the
\* normalized sum of the pressed directions as a heading
getDirectionVector(ih) ==
    LET st == ih.inputState
        dx == (IF st.right THEN 1 ELSE 0) - (IF st.left THEN 1 ELSE 0)
        dy == (IF st.down THEN 1 ELSE 0) - (IF st.up THEN 1 ELSE 0)
        q == CASE dx = 1 /\ dy = 0 -> 0
               [] dx = 1 /\ dy = 1 -> 1
               [] dx = 0 /\ dy = 1 -> 2
               [] dx = -1 /\ dy = 1 -> 3
               [] dx = -1 /\ dy = 0 -> 4
               [] dx = -1 /\ dy = -1 -> 5
               [] dx = 0 /\ dy = -1 -> 6
               [] dx = 1 /\ dy = -1 -> 7
               [] OTHER -> 0
    IN  [mag |-> IF dx = 0 /\ dy = 0 THEN 0 ELSE 1, h |-> Heading(q, 0)]

isKeyJustPressed(ih, keyCode) ==
    keyCode \in ih.keyStates /\ keyCode \notin ih.previousKeyStates

isKeyJustReleased(ih, keyCode) ==
    keyCode \notin ih.keyStates /\ keyCode \in ih.previousKeyStates

\* InputHandler.update() leaving previousKeyStates as it was
InputUpdateSkipped(ih) == ih

\* InputHandler.update()
InputUpdate(ih) == [ih EXCEPT !.previousKeyStates = ih.keyStates]

\* resetInputState that clears the current key map only
resetInputStateCurrentOnly(ih) ==
    [ih EXCEPT !.keyStates = {}, !.inputState = noInput]

resetInputState(ih) ==
    [ih EXCEPT !.keyStates = {}, !.previousKeyStates = {}, !.inputState = noInput]

---------------------------------------------------------------------------
(* UserSessionManager and ApiService, as Game reads them.  api is         *)
(* [session, token, requests, failed]: session is "none" (null), "noUserId" *)
(* (a stored session without a userId) or "user"; token is whether the      *)
(* ApiService holds a token; requests are the submitScore requests in       *)
(* flight; failed counts the rejections caught by Game.submitScore.         *)

Sessions == {"none", "noUserId", "user"}

\* Nothing in localStorage
NewApi == [session |-> "none", token |-> FALSE, requests |-> <<>>, failed |-> 0]

isAuthenticated(a) == a.token

isLoggedIn(a) == a.session # "none" /\ isAuthenticated(a)

\* getUserId(): session?.userId || null, null being ""
getUserId(a) == IF a.session = "user" THEN "user-1" ELSE ""

---------------------------------------------------------------------------
(* Game.  The methods are operators on a world w = [game, snake, fm, api,   *)
(* note]:                                                                   *)
(* game is [gameState, score, foodCount, snakeColorFlash, isRunning,        *)
(* animationFrameId, scheduled], where animationFrameId is 0 while it is    *)
(* undefined and scheduled is the set of the ids of the animation frame     *)
(* callbacks that the browser holds and has not yet run or cancelled; and   *)
(* note records what the running handler did: pause and reset (the          *)
(* branches of the input handling taken), eaten (the type of the food       *)
(* eaten, or "none"), selfHit and boundaryHit, aliveAtCheck (isAlive when    *)
(* the boundary check was made) and submits, the number of submitScore      *)
(* calls since the last resetGame.                                          *)

gameBounds == [x |-> 0, y |-> 0, width |-> WIDTH, height |-> HEIGHT]

startPosition == Vec(gameBounds.width \div 2, gameBounds.height \div 2)

NewGame ==
    [gameState |-> "playing", score |-> 0, foodCount |-> 0, snakeColorFlash |-> 0,
     isRunning |-> FALSE, animationFrameId |-> 0, scheduled |-> {}]

NewNote(submits) ==
    [pause |-> FALSE, reset |-> FALSE, eaten |-> "none", selfHit |-> FALSE,
     boundaryHit |-> FALSE, aliveAtCheck |-> TRUE, submits |-> submits]

\* submitScore() without the two early returns
submitScoreUnguarded(w) ==
    [w EXCEPT !.note.submits = @ + 1,
              !.api.requests =
                  Append(@, [userId |-> getUserId(w.api), score |-> w.game.score,
                             foodCount |-> w.game.foodCount])]

\* submitScore() up to its await: one more call, and the request sent when
\* logged in with a user id
submitScore(w) ==
    IF ~isLoggedIn(w.api) THEN [w EXCEPT !.note.submits = @ + 1]
    ELSE IF getUserId(w.api) = "" THEN [w EXCEPT !.note.submits = @ + 1]
    ELSE [w EXCEPT !.note.submits = @ + 1,
                   !.api.requests =
                       Append(@, [userId |-> getUserId(w.api), score |-> w.game.score,
                                  foodCount |-> w.game.foodCount])]

\* submitScore() after its await, the request at index i having settled:
\* console.log when it resolved, the catch and console.error when it was
\* rejected
submitScoreSettled(w, i, rejected) ==
    [w EXCEPT !.api.requests =
                  SubSeq(@, 1, i - 1) \o SubSeq(@, i + 1, Len(@)),
              !.api.failed = IF rejected THEN @ + 1 ELSE @]

gameOver(w) == submitScore([w EXCEPT !.game.gameState = "game_over"])

\* resetGame() without foodManager.reset()
resetGameKeepFoods(w, rnd) ==
    LET s == SnakeReset(w.snake, startPosition)
    IN  {[w EXCEPT !.snake = s,
                   !.fm = m,
                   !.game.score = 0,
                   !.game.foodCount = 0,
                   !.game.snakeColorFlash = 0,
                   !.game.gameState = "playing",
                   !.note.reset = TRUE,
                   !.note.submits = 0] :
            m \in forceSpawn(w.fm, s.segments, rnd)}

\* resetGame() leaving the game in Menu
resetGameToMenu(w, rnd) ==
    LET s == SnakeReset(w.snake, startPosition)
    IN  {[w EXCEPT !.snake = s,
                   !.fm = m,
                   !.game.score = 0,
                   !.game.foodCount = 0,
                   !.game.snakeColorFlash = 0,
                   !.game.gameState = "menu",
                   !.note.reset = TRUE,
                   !.note.submits = 0] :
            m \in forceSpawn(FoodManagerReset(w.fm), s.segments, rnd)}

\* resetGame(): the worlds it can leave
resetGame(w, rnd) ==
    LET s == SnakeReset(w.snake, startPosition)
    IN  {[w EXCEPT !.snake = s,
                   !.fm = m,
                   !.game.score = 0,
                   !.game.foodCount = 0,
                   !.game.snakeColorFlash = 0,
                   !.game.gameState = "playing",
                   !.note.reset = TRUE,
                   !.note.submits = 0] :
            m \in forceSpawn(FoodManagerReset(w.fm), s.segments, rnd)}

startNewGame(w, rnd) ==
    {[v EXCEPT !.game.gameState = "playing"] : v \in resetGame(w, rnd)}

handleFoodConsumption(w, food) ==
    LET grown == grow(w.snake)
    IN  [w EXCEPT !.snake = IF food.type = "speed" THEN increaseSpeed(grown, 10) ELSE grown,
                  !.game.score = @ + food.value,
                  !.game.foodCount = @ + 1,
                  !.game.snakeColorFlash = Ms(500),
                  !.note.eaten = food.type]

checkCollisions(w) ==
    LET r == FoodManagerCheckCollisions(w.fm, getHead(w.snake), radius)
        fed == IF r.eaten = 0 THEN w
               ELSE handleFoodConsumption([w EXCEPT !.fm = r.fm], r.fm.foods[r.eaten])
    IN  IF snakeSelfCollision(fed.snake)
        THEN gameOver([fed EXCEPT !.note.selfHit = TRUE])
        ELSE fed

\* handleGameInput(): the worlds it can leave
handleGameInput(w, ih, rnd) ==
    IF isKeyJustPressed(ih, "Space")
    THEN {[w EXCEPT !.game.gameState = "paused", !.note.pause = TRUE]}
    ELSE IF isKeyJustPressed(ih, "KeyR")
    THEN resetGame(w, rnd)
    ELSE LET direction == getDirectionVector(ih)
             turned == IF direction.mag > 0 THEN turn(w.snake, direction.h) ELSE w.snake
             faster == IF isKeyJustPressed(ih, "Equal") THEN increaseSpeed(turned, 20)
                       ELSE turned
             slower == IF isKeyJustPressed(ih, "Minus") THEN increaseSpeed(faster, -20)
                       ELSE faster
         IN  {[w EXCEPT !.snake = slower]}

\* updatePlaying from the boundary check on, without its last assignment
boundaryWithoutScore(w) ==
    LET b == checkBoundaryCollision(w.snake, gameBounds.width, gameBounds.height)
        v == [w EXCEPT !.snake = b.snake, !.note.aliveAtCheck = w.snake.isAlive]
    IN  IF b.hit THEN gameOver([v EXCEPT !.note.boundaryHit = TRUE]) ELSE v

\* updatePlaying from the boundary check on
boundaryAndScore(w) ==
    LET b == checkBoundaryCollision(w.snake, gameBounds.width, gameBounds.height)
        v == [w EXCEPT !.snake = b.snake, !.note.aliveAtCheck = w.snake.isAlive]
    IN  IF b.hit
        THEN gameOver([v EXCEPT !.note.boundaryHit = TRUE])
        ELSE [v EXCEPT !.game.score = getScore(v.snake)]

\* updatePlaying(deltaTime): the worlds it can leave
updatePlaying(w, ih, deltaTime, rnd) ==
    UNION {UNION {{boundaryAndScore(c) :
                      c \in {checkCollisions([v EXCEPT !.snake = moved, !.fm = m]) :
                                m \in FoodManagerUpdate(v.fm, deltaTime, moved.segments,
                                                        rnd)}} :
                     moved \in {SnakeUpdate(v.snake, deltaTime)}} :
              v \in handleGameInput(w, ih, rnd)}

updateMenu(w, ih, rnd) ==
    IF getDirectionVector(ih).mag > 0 THEN startNewGame(w, rnd) ELSE {w}

updatePaused(w, ih, rnd) ==
    LET resumed == IF isKeyJustPressed(ih, "Space")
                   THEN [w EXCEPT !.game.gameState = "playing"]
                   ELSE w
    IN  IF isKeyJustPressed(ih, "KeyR") THEN resetGame(resumed, rnd) ELSE {resumed}

\* updateGameOver() without its test of the reset key
updateGameOverResets(w, ih, rnd) == resetGame(w, rnd)

updateGameOver(w, ih, rnd) ==
    IF isKeyJustPressed(ih, "KeyR") THEN resetGame(w, rnd) ELSE {w}

\* update(deltaTime) up to updateUI: the worlds it can leave
update(w, ih, deltaTime, rnd) ==
    LET flash == w.game.snakeColorFlash
        v == IF flash > 0
             THEN [w EXCEPT !.game.snakeColorFlash =
                              IF flash - deltaTime > 0 THEN flash - deltaTime ELSE 0]
             ELSE w
    IN  CASE v.game.gameState = "menu" -> updateMenu(v, ih, rnd)
          [] v.game.gameState = "playing" -> updatePlaying(v, ih, deltaTime, rnd)
          [] v.game.gameState = "paused" -> updatePaused(v, ih, rnd)
          [] v.game.gameState = "game_over" -> updateGameOver(v, ih, rnd)

\* this.animationFrameId = requestAnimationFrame(...): the browser holds
\* one more callback, under an id that no callback it holds has
requestAnimationFrame(g) ==
    LET id == CHOOSE n \in 1..(Cardinality(g.scheduled) + 1) :
                  /\ n \notin g.scheduled
                  /\ \A k \in 1..(n - 1) : k \in g.scheduled
    IN  [g EXCEPT !.scheduled = @ \cup {id}, !.animationFrameId = id]

\* gameLoop(): [w, ih] it can leave, deltaTime being the time since
\* lastFrameTime, capped
gameLoop(w, ih, deltaTime, rnd) ==
    IF ~w.game.isRunning THEN {[w |-> w, ih |-> ih]}
    ELSE {[w |-> [v EXCEPT !.game = requestAnimationFrame(v.game)],
           ih |-> InputUpdate(ih)] :
             v \in update(w, ih, deltaTime, rnd)}

\* start(): [w, ih] it can leave; the first gameLoop() runs inside it, with
\* no time elapsed since lastFrameTime was taken
start(w, ih, rnd) ==
    IF w.game.isRunning THEN {[w |-> w, ih |-> ih]}
    ELSE gameLoop([w EXCEPT !.game.isRunning = TRUE], ih, 0, rnd)

\* stop() without cancelAnimationFrame
stopWithoutCancel(w) == [w EXCEPT !.game.isRunning = FALSE]

stop(w) ==
    [w EXCEPT !.game.isRunning = FALSE,
              !.game.scheduled = IF w.game.animationFrameId # 0
                                 THEN @ \ {w.game.animationFrameId}
                                 ELSE @]

\* init(): [w, ih] it can leave
init(w, ih, rnd) ==
    UNION {start(v, ih, rnd) :
              v \in resetGame([w EXCEPT !.game.gameState = "playing"], rnd)}

handleVisibilityChange(w, visibilityState) ==
    IF visibilityState = "hidden" /\ w.game.gameState = "playing"
    THEN [w EXCEPT !.game.gameState = "paused"]
    ELSE w

pause(w) ==
    IF w.game.gameState = "playing" THEN [w EXCEPT !.game.gameState = "paused"] ELSE w

\* resume() without its state guard
resumeUnguarded(w) == [w EXCEPT !.game.gameState = "playing"]

resume(w) ==
    IF w.game.gameState = "paused" THEN [w EXCEPT !.game.gameState = "playing"] ELSE w

---------------------------------------------------------------------------
(* Application (main.ts) and UIManager.  uiManager is [currentScreen,       *)
(* shown, requests, loading]: shown is the screen whose element is          *)
(* displayed, requests is the set of the login, register and guest calls    *)
(* that have not answered yet, and loading is the number of                 *)
(* showLeaderboard() calls that await the leaderboard.  The session and    *)
(* the token are those of api.                                              *)

AuthKinds == {"login", "register", "guest"}

showLoginScreen(u) == [u EXCEPT !.shown = "login", !.currentScreen = "login"]

showRegisterScreen(u) == [u EXCEPT !.shown = "register", !.currentScreen = "register"]

showGameUI(u) == [u EXCEPT !.shown = "game", !.currentScreen = "game"]

\* new UIManager(...): createUI() with the session and token that
\* UserSessionManager and ApiService have read from localStorage (a)
createUI(a) ==
    LET u == [currentScreen |-> "login", shown |-> "login", requests |-> {},
              loading |-> 0]
    IN  IF isLoggedIn(a) THEN showGameUI(u) ELSE showLoginScreen(u)

isGameScreen(u) == u.currentScreen = "game"

\* saveTokenToStorage(response.token), then sessionManager.setSession(...)
setSession(a) == [a EXCEPT !.session = "user", !.token = TRUE]

\* clearSession(), with apiService.logout()
clearSession(a) == [a EXCEPT !.session = "none", !.token = FALSE]

\* Application.startGame(): [w, ih] it can leave
ApplicationStartGame(u, w, ih, rnd) ==
    IF isGameScreen(u) THEN init(w, ih, rnd) ELSE {[w |-> w, ih |-> ih]}

\* handleLogin(), handleRegister() and handleGuestLogin() after the await,
\* the call having resolved: [u, w, ih] they can leave
authResolved(u, w, ih, kind, rnd) ==
    LET v == showGameUI([u EXCEPT !.requests = @ \ {kind}])
    IN  {[u |-> v, w |-> r.w, ih |-> r.ih] :
            r \in ApplicationStartGame(v, [w EXCEPT !.api = setSession(@)], ih, rnd)}

\* showLeaderboard() up to its await: hideAllScreens() and the element shown
showLeaderboard(u) == [u EXCEPT !.shown = "leaderboard", !.loading = @ + 1]

\* showLeaderboard() after its await; loadLeaderboard() catches a rejection
leaderboardLoaded(u) == [u EXCEPT !.currentScreen = "leaderboard", !.loading = @ - 1]

hideLeaderboard(u) == showGameUI(u)

---------------------------------------------------------------------------
(* The React frontend.  App is [currentScreen, userSession, gameResult,    *)
(* requests, timers]: userSession is "null", "guest" or "user", gameResult *)
(* is "null" or a [score, foodCount, gameTime], requests is the set of the *)
(* guest, login and register calls that have not answered yet, and timers  *)
(* is the number of onGameEnd timeouts that have not fired yet.            *)
(* localStorage is read only by the effect that runs at mount.             *)

NewApp ==
    [currentScreen |-> "guest-entry", userSession |-> "null", gameResult |-> "null",
     requests |-> {}, timers |-> 0]

\* the effect at mount, with a token and a user in localStorage
restoreSession(a) == [a EXCEPT !.userSession = "user", !.currentScreen = "menu"]

handleLoginSuccess(a) == [a EXCEPT !.userSession = "user", !.currentScreen = "menu"]

handleRegisterSuccess(a) == [a EXCEPT !.userSession = "user", !.currentScreen = "menu"]

handleGuestSuccess(a) == [a EXCEPT !.userSession = "guest", !.currentScreen = "menu"]

handleGameEnd(a) == [a EXCEPT !.gameResult = "set", !.currentScreen = "results"]

handleLogout(a) == [a EXCEPT !.userSession = "null", !.currentScreen = "guest-entry"]

\* the buttons of renderContent that only call setCurrentScreen
Buttons ==
    {<<"guest-entry", "login">>, <<"login", "register">>, <<"login", "guest-entry">>,
     <<"register", "login">>, <<"menu", "game">>, <<"menu", "scores">>,
     <<"game", "menu">>, <<"results", "game">>, <<"results", "menu">>,
     <<"scores", "menu">>}

---------------------------------------------------------------------------
(* The grid SnakeGame of the frontend: its gameState, cells as <<x, y>>.   *)
(* foodType only picks the picture of the food and is left out.            *)

GRID_WIDTH == 50
GRID_HEIGHT == 25

NewSnakeGame ==
    [snake |-> << <<25, 12>> >>, food |-> <<35, 18>>, foodSpawnTime |-> 0,
     score |-> 0, foodCount |-> 0, gameTime |-> 0, isPaused |-> FALSE,
     isGameOver |-> FALSE, direction |-> <<1, 0>>, nextDirection |-> <<1, 0>>]

\* the head of the next step of the game loop
newHeadOf(g) ==
    LET head == g.snake[1]
        direction == g.nextDirection
    IN  << (head[1] + direction[1] + GRID_WIDTH) % GRID_WIDTH,
           (head[2] + direction[2] + GRID_HEIGHT) % GRID_HEIGHT >>

\* Math.max(1, 10 - Math.floor(timeToConsume * 0.1))
pointsEarned(g) ==
    LET timeToConsume == g.gameTime - g.foodSpawnTime
        points == 10 - (timeToConsume \div 10)
    IN  IF points > 1 THEN points ELSE 1

\* one callback of the game loop's interval; newFood is the random cell
gameLoopStep(g, newFood) ==
    LET direction == g.nextDirection
        newHead == newHeadOf(g)
        newSnake == <<newHead>> \o g.snake
    IN  IF \E i \in 1..Len(g.snake) : g.snake[i] = newHead
        THEN [g EXCEPT !.isGameOver = TRUE]
        ELSE IF newHead = g.food
        THEN [g EXCEPT !.score = @ + pointsEarned(g),
                       !.foodCount = @ + 1,
                       !.direction = direction,
                       !.nextDirection = direction,
                       !.food = newFood,
                       !.foodSpawnTime = g.gameTime,
                       !.snake = newSnake]
        ELSE [g EXCEPT !.snake = SubSeq(newSnake, 1, Len(newSnake) - 1),
                       !.direction = direction,
                       !.nextDirection = direction]

\* one callback of the timer's interval
timerStep(g) == [g EXCEPT !.gameTime = @ + 1]

\* handleKeyDown of the game, on e.key in lower case
snakeGameKeyDown(g, key) ==
    CASE key \in {"arrowup", "w"} ->
           [g EXCEPT !.nextDirection = IF g.direction[2] = 0 THEN <<0, -1>> ELSE @]
      [] key \in {"arrowdown", "s"} ->
           [g EXCEPT !.nextDirection = IF g.direction[2] = 0 THEN <<0, 1>> ELSE @]
      [] key \in {"arrowleft", "a"} ->
           [g EXCEPT !.nextDirection = IF g.direction[1] = 0 THEN <<-1, 0>> ELSE @]
      [] key \in {"arrowright", "d"} ->
           [g EXCEPT !.nextDirection = IF g.direction[1] = 0 THEN <<1, 0>> ELSE @]
      [] key = " " -> [g EXCEPT !.isPaused = ~@]
      [] OTHER -> g

---------------------------------------------------------------------------
(* The environment.  A run follows one of the Plans: a plan fixes what      *)
(* Math.random may give (rnd) and a sequence of steps, each either one      *)
(* event repeated n times or n events chosen freely among FreeEvents.       *)

MaxFree == 3

Ev(op, key, dt) == [op |-> op, key |-> key, dt |-> dt]

Do(ev, n) == [kind |-> "do", ev |-> ev, n |-> n]

Free(n) == [kind |-> "any", ev |-> Ev("", "", 0), n |-> n]

Frame(n) == Do(Ev("tick", "", MAX_DELTA_TIME), n)

Down(key) == Do(Ev("keydown", key, 0), 1)

Up(key) == Do(Ev("keyup", key, 0), 1)

Blur == Do(Ev("blur", "", 0), 1)

\* A fresh press of key seen by one frame: blur empties both key maps
Press(key) == <<Blur, Down(key), Frame(1)>>

FreeKeys == {"Space", "KeyR", "ArrowDown"}

FreeEvents ==
    {Ev("tick", "", dt) : dt \in 1..MAX_DELTA_TIME}
    \cup {Ev(op, key, 0) : op \in {"keydown", "keyup"}, key \in FreeKeys}
    \cup {Ev("visibilitychange", state, 0) : state \in {"hidden", "visible"}}
    \cup {Ev(op, "", 0) : op \in {"init", "blur", "focus", "pause", "resume", "reset"}}

ahead == Vec(430 * PX, 300 * PX)

corner == Vec(100 * PX, 100 * PX)

anyFood == [types |-> FoodTypes, samples |-> {ahead, corner}, phases |-> {0, 15}]

cornerFood == [types |-> {"normal"}, samples |-> {corner}, phases |-> {0}]

besideBody == Vec(788 * PX, 384 * PX)

besideBodyFood == [types |-> {"normal"}, samples |-> {corner, besideBody}, phases |-> {0}]

aboveWay == Vec(765 * PX, 288 * PX)

belowWay == Vec(765 * PX, 312 * PX)

pairOfFoods == [types |-> {"normal"}, samples |-> {aboveWay, belowWay}, phases |-> {0}]

Plans ==
    << \* anything, from construction
       [rnd |-> anyFood, steps |-> <<Free(MaxFree)>>],
       \* the worm reaches the food spawned ahead of it
       [rnd |-> anyFood,
        steps |-> <<Do(Ev("init", "", 0), 1), Frame(3), Free(MaxFree)>>],
       \* straight into the right wall
       [rnd |-> cornerFood,
        steps |-> <<Do(Ev("init", "", 0), 1), Frame(116), Free(MaxFree)>>],
       \* along the right wall: down, stop, turn on the spot to face up, climb
       \* back over the own body and veer into the wall
       [rnd |-> cornerFood,
        steps |-> <<Do(Ev("init", "", 0), 1), Frame(112), Down("ArrowDown"), Frame(40)>>
                  \o Press("Minus") \o Press("Minus") \o Press("Minus")
                  \o Press("Minus") \o Press("Minus")
                  \o <<Blur, Down("ArrowUp"), Down("ArrowRight"), Frame(15),
                       Up("ArrowRight"), Frame(5)>>
                  \o Press("Equal") \o Press("Equal") \o Press("Equal")
                  \o Press("Equal") \o Press("Equal")
                  \o <<Blur, Frame(6), Down("ArrowRight"), Frame(1), Free(MaxFree)>>],
       \* the same way to the wall and round, then slowly up to the own body
       [rnd |-> cornerFood,
        steps |-> <<Do(Ev("init", "", 0), 1), Frame(112), Down("ArrowDown"), Frame(40)>>
                  \o Press("Minus") \o Press("Minus") \o Press("Minus")
                  \o Press("Minus") \o Press("Minus")
                  \o <<Blur, Down("ArrowUp"), Down("ArrowRight"), Frame(15),
                       Up("ArrowRight"), Frame(5)>>
                  \o Press("Equal") \o Press("Equal") \o Press("Equal")
                  \o Press("Equal")
                  \o <<Blur, Do(Ev("tick", "", 1), 1), Frame(9), Free(MaxFree)>>],
       \* the same again, with foods that may be spawned beside that body
       [rnd |-> besideBodyFood,
        steps |-> <<Do(Ev("init", "", 0), 1), Frame(112), Down("ArrowDown"), Frame(40)>>
                  \o Press("Minus") \o Press("Minus") \o Press("Minus")
                  \o Press("Minus") \o Press("Minus")
                  \o <<Blur, Down("ArrowUp"), Down("ArrowRight"), Frame(15),
                       Up("ArrowRight"), Frame(5)>>
                  \o Press("Equal") \o Press("Equal") \o Press("Equal")
                  \o Press("Equal")
                  \o <<Blur, Do(Ev("tick", "", 1), 1), Frame(9), Free(MaxFree)>>],
       \* straight on between two foods that lie within reach of one head
       [rnd |-> pairOfFoods,
        steps |-> <<Do(Ev("init", "", 0), 1), Frame(106), Free(MaxFree)>>]
    >>

VARIABLES game, snake, foodManager, inputHandler, api, spawning, spatialGrid, app,
          snakeGame, uiManager, hist, plan

vars ==
    <<game, snake, foodManager, inputHandler, api, spawning, spatialGrid, app, snakeGame,
      uiManager, hist, plan>>

\* No SpatialGrid has been created
NoGrid == NewSpatialGrid(gameBounds, 1)

\* No Food.spawn call is being followed step by step
NoSpawn ==
    [food |-> NewFood("normal"), bounds |-> gameBounds, existing |-> <<>>,
     attempts |-> 0, pc |-> "idle"]

Steps == Plans[plan.id].steps

Rnd == Plans[plan.id].rnd

Allowed(ev) ==
    /\ plan.pos <= Len(Steps)
    /\ \/ Steps[plan.pos].kind = "any" /\ ev \in FreeEvents
       \/ Steps[plan.pos].kind = "do" /\ Steps[plan.pos].ev = ev

Advance ==
    IF plan.left > 1 THEN [plan EXCEPT !.left = @ - 1]
    ELSE IF plan.pos < Len(Steps)
    THEN [plan EXCEPT !.pos = @ + 1, !.left = Steps[plan.pos + 1].n]
    ELSE [plan EXCEPT !.pos = Len(Steps) + 1, !.left = 0]

World ==
    [game |-> game, snake |-> snake, fm |-> foodManager, api |-> api,
     note |-> NewNote(hist.note.submits)]

\* hist is what the last handler was (event), gameState and the keys down
\* before it ran (before, held) and its note
SetWorld(w, event) ==
    /\ game' = w.game
    /\ snake' = w.snake
    /\ foodManager' = w.fm
    /\ api' = w.api
    /\ hist' = [event |-> event, before |-> game.gameState,
                held |-> inputHandler.keyStates, note |-> w.note]
    /\ UNCHANGED <<spawning, spatialGrid, app, snakeGame, uiManager>>

\* The state after new Game(...)
Init ==
    /\ game = NewGame
    /\ snake = NewSnake(startPosition)
    /\ foodManager = NewFoodManager(gameBounds)
    /\ inputHandler = NewInputHandler
    /\ api = NewApi
    /\ spawning = NoSpawn
    /\ spatialGrid = NoGrid
    /\ app = NewApp
    /\ snakeGame = NewSnakeGame
    /\ uiManager = createUI(NewApi)
    /\ hist = [event |-> "new", before |-> "playing", held |-> {}, note |-> NewNote(0)]
    /\ plan \in {[id |-> i, pos |-> 1, left |-> Plans[i].steps[1].n] : i \in DOMAIN Plans}

GameInit ==
    /\ Allowed(Ev("init", "", 0))
    /\ \E r \in init(World, inputHandler, Rnd) :
          SetWorld(r.w, "init") /\ inputHandler' = r.ih
    /\ plan' = Advance

\* The browser runs an animation frame callback it holds: gameLoop(), that
\* is update(deltaTime), inputHandler.update() and the next request
Tick(deltaTime) ==
    /\ Allowed(Ev("tick", "", deltaTime))
    /\ \E id \in game.scheduled :
          \E r \in gameLoop([World EXCEPT !.game.scheduled = @ \ {id}], inputHandler,
                             deltaTime, Rnd) :
             /\ SetWorld(r.w, IF game.isRunning THEN "update" ELSE "frame")
             /\ inputHandler' = r.ih
    /\ plan' = Advance

KeyDown(keyCode) ==
    /\ Allowed(Ev("keydown", keyCode, 0))
    /\ inputHandler' = handleKeyDown(inputHandler, keyCode)
    /\ SetWorld(World, "keydown")
    /\ plan' = Advance

KeyUp(keyCode) ==
    /\ Allowed(Ev("keyup", keyCode, 0))
    /\ inputHandler' = handleKeyUp(inputHandler, keyCode)
    /\ SetWorld(World, "keyup")
    /\ plan' = Advance

\* window blur or focus (type): both are bound to resetInputState
BlurFocus(type) ==
    /\ Allowed(Ev(type, "", 0))
    /\ inputHandler' = resetInputState(inputHandler)
    /\ SetWorld(World, type)
    /\ plan' = Advance

\* document visibilitychange, visibilityState being "hidden" or "visible"
VisibilityChange(visibilityState) ==
    /\ Allowed(Ev("visibilitychange", visibilityState, 0))
    /\ SetWorld(handleVisibilityChange(World, visibilityState), "visibilitychange")
    /\ UNCHANGED inputHandler
    /\ plan' = Advance

Pause ==
    /\ Allowed(Ev("pause", "", 0))
    /\ SetWorld(pause(World), "pause")
    /\ UNCHANGED inputHandler
    /\ plan' = Advance

Resume ==
    /\ Allowed(Ev("resume", "", 0))
    /\ SetWorld(resume(World), "resume")
    /\ UNCHANGED inputHandler
    /\ plan' = Advance

\* Game.reset()
Reset ==
    /\ Allowed(Ev("reset", "", 0))
    /\ \E w \in resetGame(World, Rnd) : SetWorld(w, "reset")
    /\ UNCHANGED inputHandler
    /\ plan' = Advance

Next ==
    \/ GameInit
    \/ \E deltaTime \in 0..MAX_DELTA_TIME : Tick(deltaTime)
    \/ \E keyCode \in Keys : KeyDown(keyCode)
    \/ \E keyCode \in Keys : KeyUp(keyCode)
    \/ \E type \in {"blur", "focus"} : BlurFocus(type)
    \/ \E visibilityState \in {"hidden", "visible"} : VisibilityChange(visibilityState)
    \/ Pause
    \/ Resume
    \/ Reset

Spec == Init /\ [][Next]_vars

---------------------------------------------------------------------------
(* Claims about the game loop (Spec) *)

\* C1: in each game (from one resetGame to the next) the score is submitted
\* exactly once when the game goes to GameOver, also in a tick in which both
\* a self-collision and a boundary collision are detected
C1_SubmittedOncePerGame ==
    game.gameState = "game_over" => hist.note.submits = 1

\* C1: a tick in which both collisions are detected has run
C1_BothCollisionsInOneTick ==
    /\ hist.event = "update"
    /\ hist.note.selfHit
    /\ hist.note.boundaryHit
    /\ game.gameState = "game_over"

\* C2: a Playing tick in which the head overlaps an active normal food leaves
\* the score exactly 10 higher, the worm exactly GROWTH_RATE segments longer
\* and that food inactive
C2_NormalFoodAddsTen ==
    [][(hist'.event = "update" /\ hist'.before = "playing" /\ hist'.note.eaten = "normal")
        => /\ game'.score = game.score + 10
           /\ Len(snake'.segments) = Len(snake.segments) + GROWTH_RATE
           /\ \E i \in 1..Len(foodManager'.foods) : ~foodManager'.foods[i].isActive]_vars

\* C2: a Playing tick has eaten a normal food
C2_NormalFoodEaten ==
    hist.event = "update" /\ hist.before = "playing" /\ hist.note.eaten = "normal"

\* C4: in a Playing tick in which the pause is applied neither the worm nor
\* the food manager is advanced, and the tick ends in Paused with the worm
\* where it was
C4_PauseStopsTheTick ==
    [][(hist'.event = "update" /\ hist'.before = "playing" /\ hist'.note.pause)
        => /\ snake' = snake
           /\ foodManager' = foodManager
           /\ game'.gameState = "paused"]_vars

\* C4: a Playing tick has applied the pause
C4_PauseApplied ==
    hist.event = "update" /\ hist.before = "playing" /\ hist.note.pause

C11_JustPressedOnlyOnFirstTick ==
    [][/\ hist'.event = "update" =>
              /\ inputHandler'.keyStates = inputHandler.keyStates
              /\ inputHandler'.previousKeyStates = inputHandler.keyStates
              /\ \A k \in Keys : ~(k \in inputHandler'.keyStates
                                    /\ k \notin inputHandler'.previousKeyStates)
       /\ inputHandler'.previousKeyStates # inputHandler.previousKeyStates =>
              hist'.event \in {"update", "init", "blur", "focus"}
       /\ (/\ hist'.event = "update"
           /\ \/ hist'.note.pause
              \/ /\ hist'.before = "paused"
                 /\ game'.gameState = "playing"
                 /\ ~hist'.note.reset) =>
              /\ "Space" \in inputHandler.keyStates
              /\ "Space" \notin inputHandler.previousKeyStates
       /\ (hist.event = "update" /\ hist'.event = "update") =>
              /\ ~hist'.note.pause
              /\ ~hist'.note.reset
              /\ game.gameState = "paused" => game'.gameState = "paused"
      ]_vars

\* C11: a tick that began Paused with Space still held from before, and left
\* the game Paused
C11_HeldSpaceDidNotToggleAgain ==
    /\ hist.event = "update"
    /\ hist.before = "paused"
    /\ "Space" \in hist.held
    /\ game.gameState = "paused"

\* All key state is clear
Cleared(ih) ==
    /\ \A k \in Keys : ~isKeyPressed(ih, k)
    /\ \A f \in DOMAIN ih.inputState : ~ih.inputState[f]
    /\ getDirectionVector(ih).mag = 0
    /\ \A k \in Keys : ~isKeyJustPressed(ih, k) /\ ~isKeyJustReleased(ih, k)

\* C12: a blur or focus event leaves all key state clear (no key pressed, no
\* InputState flag set, zero direction vector, no key just pressed or just
\* released), and it stays clear until the next keydown or keyup
C12_BlurClearsAllKeyState ==
    [][/\ hist'.event \in {"blur", "focus"} => Cleared(inputHandler')
       /\ (Cleared(inputHandler) /\ hist'.event \notin {"keydown", "keyup"}) =>
              Cleared(inputHandler')
      ]_vars

\* C12: the window lost or gained focus while a key was held that the
\* previous tick had seen
C12_BlurWithKeyHeld ==
    /\ hist.event \in {"blur", "focus"}
    /\ hist.held # {}
    /\ Cleared(inputHandler)

\* C26: a tick in GameOver in which the reset key is just pressed leaves
\* the game in Menu
C26_ResetFromGameOverToMenu ==
    (hist.event = "update" /\ hist.before = "game_over" /\ hist.note.reset)
    => game.gameState = "menu"

\* C26: the reset key has been pressed in GameOver and the tick has run
\* resetGame
C26_ResetInGameOver ==
    /\ hist.event = "update"
    /\ hist.before = "game_over"
    /\ hist.note.reset

\* the state resetGame() is to leave: Playing, no score, no flash, a new
\* worm at the centre of the canvas and one active food
freshGame(v) ==
    /\ v.game.gameState = "playing"
    /\ v.game.score = 0
    /\ v.game.foodCount = 0
    /\ v.game.snakeColorFlash = 0
    /\ v.snake.isAlive
    /\ Len(v.snake.segments) = INITIAL_LENGTH
    /\ \A i \in 1..INITIAL_LENGTH :
          v.snake.segments[i] =
              Vec((CANVAS_WIDTH * PX) \div 2 - (i - 1) * 2 * SEGMENT_RADIUS * PX,
                  (CANVAS_HEIGHT * PX) \div 2)
    /\ v.snake.direction = right
    /\ v.snake.targetDirection = right
    /\ v.snake.speed = INITIAL_SPEED
    /\ Len(v.fm.foods) = 1
    /\ v.fm.foods[1].isActive

C29_GameOverIffWormDead ==
    hist.event = "update" => (game.gameState = "game_over" <=> ~snake.isAlive)

\* C29: a tick has ended the game by the detector's self-collision
C29_SelfCollisionDetected ==
    /\ hist.event = "update"
    /\ hist.note.selfHit
    /\ game.gameState = "game_over"

C32_IdleTickChangesNothing ==
    [][(/\ hist'.event = "update"
        /\ plan' # plan
        /\ game.gameState \in {"paused", "game_over"}
        /\ ~isKeyJustPressed(inputHandler, "Space")
        /\ ~isKeyJustPressed(inputHandler, "KeyR"))
       => /\ snake' = snake
          /\ foodManager' = foodManager
          /\ game'.score = game.score
          /\ game'.foodCount = game.foodCount
          /\ game'.gameState = game.gameState]_vars

\* C32: two ticks in a row have run in Paused, the second with no key just
\* pressed, after the worm had left its starting place
C32_TicksWhilePaused ==
    /\ hist.event = "update"
    /\ hist.before = "paused"
    /\ game.gameState = "paused"
    /\ inputHandler.keyStates = {}
    /\ getHead(snake) # startPosition

\* C33: a tick in Playing, and the tick inside init(), consumes at most one
\* food (the foods left inactive are those consumed in that tick, update
\* having removed the older ones) and adds that number to foodCount, counted
\* from 0 when the handler ran resetGame; any other handler leaves foodCount
\* as it was, or at 0 when it ran resetGame
C33_OneFoodPerTick ==
    [][LET consumed == Cardinality({i \in 1..Len(foodManager'.foods) :
                                       ~foodManager'.foods[i].isActive})
           base == IF hist'.note.reset THEN 0 ELSE game.foodCount
       IN  IF \/ hist'.event = "update" /\ game.gameState = "playing"
              \/ hist'.event = "init"
           THEN consumed <= 1 /\ game'.foodCount = base + consumed
           ELSE game'.foodCount = base]_vars

\* C33: a tick has consumed a food while another active food also overlaps
\* the head
C33_TwoFoodsUnderTheHead ==
    /\ hist.event = "update"
    /\ hist.before = "playing"
    /\ hist.note.eaten # "none"
    /\ \E i \in 1..Len(foodManager.foods) :
          FoodCheckCollision(foodManager.foods[i], getHead(snake), radius)

\* C35: the speed of the worm is above 0 in every state of the game
C35_SpeedStaysPositive == snake.speed > 0

\* C35: a tick in Playing with the speed-down key just pressed has left a
\* live worm without speed, its head where it was
C35_WormAtRest ==
    /\ hist.event = "update"
    /\ hist.before = "playing"
    /\ "Minus" \in hist.held
    /\ snake.isAlive
    /\ snake.speed <= 0

---------------------------------------------------------------------------
(* The game loop with a session read from localStorage and the score       *)
(* requests settling (SpecSubmit): the runs that end at the right wall or  *)
(* at the own body beside a food, and any stored session and token.  A     *)
(* request in flight is resolved or rejected at any time between two       *)
(* handlers.                                                               *)

SubmitPlans == {3, 4, 6}

InitSubmit ==
    /\ game = NewGame
    /\ snake = NewSnake(startPosition)
    /\ foodManager = NewFoodManager(gameBounds)
    /\ inputHandler = NewInputHandler
    /\ api \in {[NewApi EXCEPT !.session = session, !.token = token] :
                   session \in Sessions, token \in BOOLEAN}
    /\ spawning = NoSpawn
    /\ spatialGrid = NoGrid
    /\ app = NewApp
    /\ snakeGame = NewSnakeGame
    /\ uiManager = createUI(NewApi)
    /\ hist = [event |-> "new", before |-> "playing", held |-> {}, note |-> NewNote(0)]
    /\ plan \in {[id |-> i, pos |-> 1, left |-> Plans[i].steps[1].n] : i \in SubmitPlans}

\* The promise of apiService.submitScore settles and submitScore() resumes
SubmitSettled(rejected) ==
    /\ \E i \in 1..Len(api.requests) :
          SetWorld(submitScoreSettled(World, i, rejected),
                   IF rejected THEN "rejected" ELSE "resolved")
    /\ UNCHANGED <<inputHandler, plan>>

NextSubmit ==
    \/ Next
    \/ \E rejected \in BOOLEAN : SubmitSettled(rejected)

SpecSubmit == InitSubmit /\ [][NextSubmit]_vars

\* C17: a score request is sent only by a handler that ends in GameOver, with
\* a session that has a user id and a token; a request that settles,
\* resolved or rejected, leaves gameState, score, foodCount, the worm, the
\* foods, the input state and isRunning as they are, so the ticks go on
C17_SubmissionLeavesTheGameAlone ==
    [][/\ Len(api'.requests) > Len(api.requests) =>
              /\ api.session = "user"
              /\ api.token
              /\ game'.gameState = "game_over"
              /\ hist'.note.submits > 0
       /\ hist'.event \in {"resolved", "rejected"} =>
              /\ game' = game
              /\ snake' = snake
              /\ foodManager' = foodManager
              /\ inputHandler' = inputHandler
              /\ plan' = plan
              /\ Len(api'.requests) = Len(api.requests) - 1
      ]_vars

\* C17: a tick has run after a score request was rejected
C17_TickAfterRejectedSubmission ==
    /\ hist.event = "update"
    /\ api.failed > 0

\* C30: after a tick that has ended the game and sent a score request, the
\* score of that request is the score the game holds and shows, also when a
\* food was eaten in that tick
C30_SentScoreIsShownScore ==
    (/\ hist.event = "update"
     /\ hist.before = "playing"
     /\ game.gameState = "game_over"
     /\ Len(api.requests) > 0)
        => api.requests[Len(api.requests)].score = game.score

\* C30: a tick in which a food was eaten has ended the game by the worm
\* running into its own body, and has sent a score request
C30_DiedAtOwnBodyWhileEating ==
    /\ hist.event = "update"
    /\ hist.before = "playing"
    /\ game.gameState = "game_over"
    /\ hist.note.selfHit
    /\ hist.note.eaten # "none"
    /\ Len(api.requests) > 0

---------------------------------------------------------------------------
(* The Snake class on its own: any interleaving of its public methods and  *)
(* of CollisionDetector.snakeSelfCollision on it, at most MaxSnakeOps      *)
(* calls (SpecSnake).  hist is [event, arg, wasAlive, returned]: the       *)
(* method called, its argument (0 when it has none), isAlive before the    *)
(* call and the value returned (FALSE for the methods that return          *)
(* nothing).                                                               *)

MaxSnakeOps == 4

\* update(deltaTime): frames of 1/60 s and 1000/30 ms, and one of 500 ms
SnakeDeltaTimes == {1, MAX_DELTA_TIME, Ms(500)}

\* turn(newDirection): down, left, up and up-left
TurnHeadings == {down, left, up, Heading(5, 0)}

SpeedAmounts == {20, -20}

\* canvasWidth, canvasHeight of checkBoundaryCollision and wrapAroundBounds:
\* the game's canvas and one that ends at the start position
Canvases == {Vec(WIDTH, HEIGHT), Vec(WIDTH \div 2, HEIGHT \div 2)}

SnakeIdle ==
    /\ game = NewGame
    /\ foodManager = NewFoodManager(gameBounds)
    /\ inputHandler = NewInputHandler
    /\ api = NewApi
    /\ spawning = NoSpawn
    /\ spatialGrid = NoGrid
    /\ app = NewApp
    /\ snakeGame = NewSnakeGame
    /\ uiManager = createUI(NewApi)

InitSnake ==
    /\ SnakeIdle
    /\ snake = NewSnake(startPosition)
    /\ hist = [event |-> "new", arg |-> 0, wasAlive |-> TRUE, returned |-> FALSE]
    /\ plan = [id |-> 0, pos |-> 0, left |-> MaxSnakeOps]

SnakeCall(event, arg, s, returned) ==
    /\ plan.left > 0
    /\ plan' = [plan EXCEPT !.left = @ - 1]
    /\ snake' = s
    /\ hist' = [event |-> event, arg |-> arg, wasAlive |-> snake.isAlive,
                returned |-> returned]
    /\ UNCHANGED <<game, foodManager, inputHandler, api, spawning, spatialGrid, app,
                   snakeGame, uiManager>>

CallUpdate(deltaTime) ==
    SnakeCall("update", deltaTime, SnakeUpdate(snake, deltaTime), FALSE)

CallTurn(newDirection) ==
    SnakeCall("turn", newDirection, turn(snake, newDirection), FALSE)

CallGrow == SnakeCall("grow", 0, grow(snake), FALSE)

CallCheckSelfCollision ==
    SnakeCall("checkSelfCollision", 0, checkSelfCollision(snake).snake,
              checkSelfCollision(snake).hit)

CallCheckBoundaryCollision(canvas) ==
    SnakeCall("checkBoundaryCollision", canvas,
              checkBoundaryCollision(snake, canvas.x, canvas.y).snake,
              checkBoundaryCollision(snake, canvas.x, canvas.y).hit)

CallWrapAroundBounds(canvas) ==
    SnakeCall("wrapAroundBounds", canvas,
              wrapAroundBounds(snake, canvas.x, canvas.y), FALSE)

\* reset(startPosition): the canvas centre and the position of the test
ResetPositions == {startPosition, Vec(200 * PX, 200 * PX)}

CallReset(position) == SnakeCall("reset", position, SnakeReset(snake, position), FALSE)

CallIncreaseSpeed(amount) ==
    SnakeCall("increaseSpeed", amount, increaseSpeed(snake, amount), FALSE)

\* CollisionDetector.snakeSelfCollision(snake).occurred
CallSnakeSelfCollision ==
    SnakeCall("snakeSelfCollision", 0, snake, snakeSelfCollision(snake))

NextSnake ==
    \/ \E deltaTime \in SnakeDeltaTimes : CallUpdate(deltaTime)
    \/ \E newDirection \in TurnHeadings : CallTurn(newDirection)
    \/ CallGrow
    \/ CallCheckSelfCollision
    \/ \E canvas \in Canvases : CallCheckBoundaryCollision(canvas)
    \/ \E canvas \in Canvases : CallWrapAroundBounds(canvas)
    \/ \E position \in ResetPositions : CallReset(position)
    \/ \E amount \in SpeedAmounts : CallIncreaseSpeed(amount)
    \/ CallSnakeSelfCollision

SpecSnake == InitSnake /\ [][NextSnake]_vars

\* |distance(a, b) - d| <= 1, the rounding of the fixed point
atDistance(a, b, d) ==
    /\ distanceSquared(a, b) >= (d - 1) * (d - 1)
    /\ distanceSquared(a, b) <= (d + 1) * (d + 1)

\* C3: grow() appends GROWTH_RATE segments, the k-th at k * segmentSpacing
\* from the old tail, and no new segment overlaps an existing segment or
\* another new one
C3_GrowBeyondTheTail ==
    [][hist'.event = "grow"
        => LET old == Len(snake.segments)
               tail == snake.segments[old]
           IN  /\ Len(snake'.segments) = old + GROWTH_RATE
               /\ \A k \in 1..GROWTH_RATE :
                     /\ atDistance(snake'.segments[old + k], tail, k * segmentSpacing)
                     /\ \A i \in 1..(old + k - 1) :
                           distanceSquared(snake'.segments[old + k], snake'.segments[i])
                              >= (segmentSpacing - 1) * (segmentSpacing - 1)]_vars

\* C3: grow() has put a new segment on the old tail
C3_NewSegmentOnTheTail ==
    /\ hist.event = "grow"
    /\ Len(snake.segments) >= INITIAL_LENGTH + GROWTH_RATE
    /\ \E i \in 1..(Len(snake.segments) - 1) :
          snake.segments[i] = snake.segments[Len(snake.segments)]

\* C7: once isAlive is false update(deltaTime) leaves segments, direction and
\* targetDirection as they are, and only reset() sets isAlive back to true
C7_DeadWormStays ==
    [][/\ (~snake.isAlive /\ hist'.event = "update")
          => /\ snake'.segments = snake.segments
             /\ snake'.direction = snake.direction
             /\ snake'.targetDirection = snake.targetDirection
       /\ (~snake.isAlive /\ snake'.isAlive) => hist'.event = "reset"]_vars

\* C7: update has been called on a dead worm that had speed and a turn to make
C7_UpdatedWhileDead ==
    /\ hist.event = "update"
    /\ ~hist.wasAlive
    /\ snake.speed > 0
    /\ snake.targetDirection # snake.direction

\* The exact reverse of heading h
reverse(h) == Heading(h.q + 4, h.j)

\* C13: turn() with the exact reverse of the current heading leaves
\* targetDirection unchanged, and after the next update(deltaTime) the new
\* direction has a positive dot product with the direction before it, for
\* every deltaTime and every pending targetDirection
C13_NoInstantReversal ==
    [][/\ (hist'.event = "turn" /\ hist'.arg = reverse(snake.direction))
          => snake'.targetDirection = snake.targetDirection
       /\ (/\ hist.event = "turn"
           /\ hist.arg = reverse(snake.direction)
           /\ hist'.event = "update")
          => dot(fromAngle(snake'.direction), fromAngle(snake.direction)) > 0]_vars

\* C13: turn() has been called with the exact reverse of the heading while a
\* turn accepted earlier was pending, and has been rejected
C13_ReverseTurnRejected ==
    /\ hist.event = "turn"
    /\ hist.arg = reverse(snake.direction)
    /\ snake.targetDirection # hist.arg
    /\ snake.targetDirection # snake.direction
    /\ snake.isAlive

\* C14: after update(deltaTime) on a live worm no segment is further than
\* segmentSpacing from the segment before it (2 length units of rounding)
C14_SegmentsWithinSpacing ==
    (hist.event = "update" /\ hist.wasAlive)
    => \A i \in 2..Len(snake.segments) :
          distanceSquared(snake.segments[i - 1], snake.segments[i])
             <= (segmentSpacing + 2) * (segmentSpacing + 2)

\* C14: a live worm that had grown has been updated after wrapAroundBounds
\* took its head to the other edge
C14_UpdatedAfterGrowAndWrap ==
    /\ hist.event = "update"
    /\ hist.wasAlive
    /\ Len(snake.segments) > INITIAL_LENGTH
    /\ getHead(snake).x < segmentSpacing

\* The head is further than radius outside the canvas
leftCanvas(head, canvas) ==
    \/ head.x < -radius
    \/ head.x > canvas.x + radius
    \/ head.y < -radius
    \/ head.y > canvas.y + radius

\* C20: wrapAroundBounds on a head that is more than radius outside the
\* canvas puts it on the opposite edge, keeps isAlive, and leaves every
\* segment that was further than 3 * segmentSpacing from its leader one
\* segmentSpacing from it, on the side opposite to the direction of travel;
\* on any other head it changes nothing
C20_WrapPlacesSegmentsBehind ==
    [][hist'.event = "wrapAroundBounds"
        => LET head == getHead(snake)
               canvas == hist'.arg
               new == snake'.segments
           IN  IF leftCanvas(head, canvas)
               THEN /\ new[1].x = (IF head.x < -radius THEN canvas.x + radius
                                   ELSE IF head.x > canvas.x + radius THEN -radius
                                   ELSE head.x)
                    /\ new[1].y = (IF head.y < -radius THEN canvas.y + radius
                                   ELSE IF head.y > canvas.y + radius THEN -radius
                                   ELSE head.y)
                    /\ snake'.isAlive = snake.isAlive
                    /\ Len(new) = Len(snake.segments)
                    /\ \A i \in 2..Len(new) :
                          IF distanceSquared(new[i - 1], snake.segments[i])
                                > (segmentSpacing * 3) * (segmentSpacing * 3)
                          THEN /\ atDistance(new[i], new[i - 1], segmentSpacing)
                               /\ dot(subtract(new[i], new[i - 1]),
                                      fromAngle(snake.direction)) < 0
                          ELSE new[i] = snake.segments[i]
               ELSE snake' = snake]_vars

\* C20: wrapAroundBounds has taken the head of a live worm from beyond the
\* right edge to the left edge
C20_HeadWrapped ==
    /\ hist.event = "wrapAroundBounds"
    /\ snake.isAlive
    /\ getHead(snake).x = -radius
    /\ snake.direction = right

\* C34: the update() that follows a wrapAroundBounds which took the head of
\* a live worm moving straight to the opposite edge leaves the worm alive
C34_WrapIsSurvivable ==
    [][(/\ hist.event = "wrapAroundBounds"
        /\ getHead(snake).x = -radius
        /\ snake.isAlive
        /\ snake.direction = snake.targetDirection
        /\ hist'.event = "update")
       => snake'.isAlive]_vars

\* C34: update() has killed a worm that heads right with its head to the
\* left of its last segment, as wrapAroundBounds leaves it
C34_DiedAfterWrap ==
    /\ hist.event = "update"
    /\ hist.wasAlive
    /\ ~snake.isAlive
    /\ snake.direction = right
    /\ snake.targetDirection = right
    /\ getHead(snake).x < snake.segments[Len(snake.segments)].x

\* C21: reset(p) leaves the worm as new Snake(p) makes it, whatever it was:
\* INITIAL_LENGTH segments in a line to the left of p, one segmentSpacing
\* apart, direction and targetDirection right, the initial speed and
\* isAlive; a second reset(p) changes nothing
C21_ResetIsConstruction ==
    [][hist'.event = "reset" =>
          LET p == hist'.arg
          IN  /\ snake' = NewSnake(p)
              /\ Len(snake'.segments) = INITIAL_LENGTH
              /\ \A i \in 1..INITIAL_LENGTH :
                    snake'.segments[i] = Vec(p.x - (i - 1) * segmentSpacing, p.y)
              /\ snake'.direction = right
              /\ snake'.targetDirection = right
              /\ snake'.speed = INITIAL_SPEED
              /\ snake'.isAlive
              /\ (hist.event = "reset" /\ hist.arg = p) => snake' = snake]_vars

\* C21: reset has been called on a dead worm, at a position other than the
\* one it was constructed at
C21_DeadWormReset ==
    /\ hist.event = "reset"
    /\ ~hist.wasAlive
    /\ hist.arg # startPosition
    /\ snake.isAlive

---------------------------------------------------------------------------
(* The same calls on worms whose public segments array was assigned, as    *)
(* the tests do: worms of fewer than four segments, folded onto            *)
(* themselves, and a worm of four with its last segment on the head        *)
(* (SpecShortSnake).                                                       *)

folded ==
    {<<startPosition>>,
     <<startPosition, startPosition>>,
     <<startPosition, startPosition, startPosition>>,
     <<startPosition, Vec(startPosition.x - segmentSpacing, startPosition.y),
       startPosition>>,
     <<startPosition, Vec(startPosition.x - radius, startPosition.y),
       Vec(startPosition.x - segmentSpacing, startPosition.y)>>,
     <<startPosition, Vec(startPosition.x - segmentSpacing, startPosition.y),
       Vec(startPosition.x - segmentSpacing, startPosition.y + segmentSpacing),
       Vec(startPosition.x, startPosition.y + radius)>>}

InitShortSnake ==
    /\ SnakeIdle
    /\ snake \in {[NewSnake(startPosition) EXCEPT !.segments = segments] :
                     segments \in folded}
    /\ hist = [event |-> "new", arg |-> 0, wasAlive |-> TRUE, returned |-> FALSE]
    /\ plan = [id |-> 0, pos |-> 0, left |-> MaxSnakeOps]

SpecShortSnake == InitShortSnake /\ [][NextSnake]_vars

\* C15: on a worm of fewer than 4 segments checkSelfCollision returns false
\* and leaves isAlive, snakeSelfCollision reports occurred = false, and
\* update leaves a live worm alive; on a worm of 4 or more both report
\* exactly the overlaps of the head with the segments of index >= 3, the
\* detector with its tolerance
C15_ShortWormNeverCollides ==
    LET n == Len(snake.segments)
        head == snake.segments[1]
        reach == radius + radius + COLLISION_TOLERANCE
    IN  /\ hist.event = "checkSelfCollision" =>
              /\ hist.returned =
                    (\E i \in 4..n : distanceSquared(head, snake.segments[i])
                                        < (radius * 2) * (radius * 2))
              /\ n < 4 => ~hist.returned /\ snake.isAlive = hist.wasAlive
              /\ snake.isAlive = (hist.wasAlive /\ ~hist.returned)
        /\ hist.event = "snakeSelfCollision" =>
              /\ hist.returned =
                    (\E i \in 4..n : distanceSquared(head, snake.segments[i])
                                        <= reach * reach)
              /\ n < 4 => ~hist.returned
        /\ (hist.event = "update" /\ hist.wasAlive /\ n < 4) => snake.isAlive

\* C15: checkSelfCollision has returned false on a worm of fewer than 4
\* segments whose head overlaps another of its segments
C15_ShortWormOverlapsItself ==
    /\ hist.event = "checkSelfCollision"
    /\ Len(snake.segments) < 4
    /\ \E i \in 2..Len(snake.segments) :
          distanceSquared(snake.segments[1], snake.segments[i])
             < (radius * 2) * (radius * 2)
    /\ ~hist.returned

---------------------------------------------------------------------------
(* The FoodManager class on its own: any interleaving of update,           *)
(* forceSpawn, checkCollisions and reset, at most MaxFoodOps calls         *)
(* (SpecFood).  hist is [event, arg, wasFull, returned, spawned, elapsed]:  *)
(* the method called and its argument (0 when it has none), whether        *)
(* maxFoodCount foods were held before the call, the index of the food     *)
(* returned by checkCollisions (0 for null and the other calls), whether   *)
(* an update added a food, and the deltaTime of the updates since the last *)
(* update that added a food, the last reset or the construction.           *)

MaxFoodOps == 5

FoodDeltaTimes == {MAX_DELTA_TIME, SPAWN_INTERVAL \div 2, SPAWN_INTERVAL}

foodRnd == [types |-> {"normal", "speed"}, samples |-> {ahead, corner}, phases |-> {0}]

InitFood ==
    /\ game = NewGame
    /\ snake = NewSnake(startPosition)
    /\ inputHandler = NewInputHandler
    /\ api = NewApi
    /\ spawning = NoSpawn
    /\ spatialGrid = NoGrid
    /\ app = NewApp
    /\ snakeGame = NewSnakeGame
    /\ uiManager = createUI(NewApi)
    /\ foodManager = NewFoodManager(gameBounds)
    /\ hist = [event |-> "new", arg |-> 0, wasFull |-> FALSE, returned |-> 0,
               spawned |-> FALSE, elapsed |-> 0]
    /\ plan = [id |-> 0, pos |-> 0, left |-> MaxFoodOps]

\* The number of active foods held
activeCount(fm) == Cardinality({i \in 1..Len(fm.foods) : fm.foods[i].isActive})

FoodCall(event, arg, fm, returned) ==
    /\ plan.left > 0
    /\ plan' = [plan EXCEPT !.left = @ - 1]
    /\ foodManager' = fm
    /\ LET spawned == event = "update" /\ Len(fm.foods) > activeCount(foodManager)
       IN  hist' = [event |-> event,
                    arg |-> arg,
                    wasFull |-> Len(foodManager.foods) >= MAX_FOOD_COUNT,
                    returned |-> returned,
                    spawned |-> spawned,
                    elapsed |-> IF spawned \/ event = "reset" THEN 0
                                ELSE IF event = "update" THEN hist.elapsed + arg
                                ELSE hist.elapsed]
    /\ UNCHANGED <<game, snake, inputHandler, api, spawning, spatialGrid, app, snakeGame,
                   uiManager>>

CallFoodUpdate(deltaTime) ==
    \E fm \in FoodManagerUpdate(foodManager, deltaTime, snake.segments, foodRnd) :
       FoodCall("update", deltaTime, fm, 0)

CallForceSpawn ==
    \E fm \in forceSpawn(foodManager, snake.segments, foodRnd) :
       FoodCall("forceSpawn", 0, fm, 0)

CallCheckCollisions(point) ==
    FoodCall("checkCollisions", point,
             FoodManagerCheckCollisions(foodManager, point, radius).fm,
             FoodManagerCheckCollisions(foodManager, point, radius).eaten)

CallFoodReset == FoodCall("reset", 0, FoodManagerReset(foodManager), 0)

NextFood ==
    \/ \E deltaTime \in FoodDeltaTimes : CallFoodUpdate(deltaTime)
    \/ CallForceSpawn
    \/ \E point \in foodRnd.samples : CallCheckCollisions(point)
    \/ CallFoodReset

SpecFood == InitFood /\ [][NextFood]_vars

\* C8: under any interleaving of update, forceSpawn, checkCollisions and
\* reset the manager never holds more than maxFoodCount foods
C8_AtMostMaxFoodCount ==
    Len(foodManager.foods) <= MAX_FOOD_COUNT

\* C8: a spawn has been asked of a manager that already held maxFoodCount
\* foods
C8_SpawnAskedWhenFull ==
    /\ hist.event \in {"forceSpawn", "update"}
    /\ hist.wasFull
    /\ Len(foodManager.foods) = MAX_FOOD_COUNT

\* C18: update adds at most one food per call, after the foods it kept, and
\* only when the deltaTime of the updates since the last timed spawn, reset
\* or construction has reached spawnInterval and fewer than maxFoodCount
\* foods are kept; forceSpawn adds one food whenever fewer than maxFoodCount
\* are held, whatever the timer, and leaves the timer as it is
C18_TimedSpawnsAreSpacedOut ==
    [][/\ hist'.event = "update" =>
              LET kept == activeCount(foodManager)
                  added == Len(foodManager'.foods) - kept
              IN  /\ added \in {0, 1}
                  /\ added = 1 =>
                        /\ hist.elapsed + hist'.arg >= SPAWN_INTERVAL
                        /\ kept < MAX_FOOD_COUNT
                        /\ foodManager'.lastSpawnTime = 0
                  /\ added = 0 =>
                        foodManager'.lastSpawnTime = foodManager.lastSpawnTime + hist'.arg
       /\ hist'.event = "forceSpawn" =>
              /\ foodManager'.lastSpawnTime = foodManager.lastSpawnTime
              /\ Len(foodManager'.foods) =
                    (IF Len(foodManager.foods) < MAX_FOOD_COUNT
                     THEN Len(foodManager.foods) + 1
                     ELSE Len(foodManager.foods))
      ]_vars

\* C18: a timed spawn has come from the deltaTime of several updates, while
\* another food was held
C18_SpawnAfterAccumulatedTime ==
    /\ hist.event = "update"
    /\ hist.spawned
    /\ hist.arg < SPAWN_INTERVAL
    /\ Len(foodManager.foods) >= 2

\* C19: checkCollisions returns only a food that was active and leaves it
\* inactive; Food.checkCollision is false on every inactive food, for every
\* point and radius; and after update every held food is active
C19_ConsumedAtMostOnce ==
    /\ [][(hist'.event = "checkCollisions" /\ hist'.returned # 0) =>
              /\ foodManager.foods[hist'.returned].isActive
              /\ ~foodManager'.foods[hist'.returned].isActive
              /\ \A i \in 1..Len(foodManager.foods) :
                    i # hist'.returned => foodManager'.foods[i] = foodManager.foods[i]
          ]_vars
    /\ [](\A i \in 1..Len(foodManager.foods) :
              ~foodManager.foods[i].isActive =>
                 \A point \in foodRnd.samples, r \in {0, radius, WIDTH} :
                    ~FoodCheckCollision(foodManager.foods[i], point, r))
    /\ [](hist.event = "update" =>
              \A i \in 1..Len(foodManager.foods) : foodManager.foods[i].isActive)

\* C19: checkCollisions has returned null at the position of a food that is
\* held and was consumed before
C19_ConsumedFoodNotReturnedAgain ==
    /\ hist.event = "checkCollisions"
    /\ hist.returned = 0
    /\ \E i \in 1..Len(foodManager.foods) :
          /\ ~foodManager.foods[i].isActive
          /\ foodManager.foods[i].position = hist.arg

---------------------------------------------------------------------------
(* A FoodManager that is called for ever (SpecFoodLive): update with one   *)
(* of LiveDeltaTimes, forceSpawn, checkCollisions and reset in any order,  *)
(* where updates with a positive deltaTime keep occurring.  The timer of a *)
(* manager that is full of active foods grows with every update; such      *)
(* updates stop at MaxSpawnTime.  hist is [event, arg, spawned].           *)

\* two spawn intervals, in 1/60 s
MaxSpawnTime == 360

LiveDeltaTimes == {0, SPAWN_INTERVAL \div 2, SPAWN_INTERVAL}

liveRnd == [types |-> {"normal"}, samples |-> {ahead, corner}, phases |-> {0}]

InitFoodLive ==
    /\ game = NewGame
    /\ snake = NewSnake(startPosition)
    /\ inputHandler = NewInputHandler
    /\ api = NewApi
    /\ spawning = NoSpawn
    /\ spatialGrid = NoGrid
    /\ app = NewApp
    /\ snakeGame = NewSnakeGame
    /\ uiManager = createUI(NewApi)
    /\ foodManager = NewFoodManager(gameBounds)
    /\ hist = [event |-> "new", arg |-> 0, spawned |-> FALSE]
    /\ plan = [id |-> 0, pos |-> 0, left |-> 0]

FoodLiveCall(event, arg, fm) ==
    /\ foodManager' = fm
    /\ hist' = [event |-> event, arg |-> arg,
                spawned |-> event = "update" /\ Len(fm.foods) > activeCount(foodManager)]
    /\ UNCHANGED <<game, snake, inputHandler, api, spawning, spatialGrid, app, snakeGame,
                   uiManager, plan>>

LiveUpdate(deltaTime) ==
    /\ \/ foodManager.lastSpawnTime + deltaTime <= MaxSpawnTime
       \/ activeCount(foodManager) < MAX_FOOD_COUNT
    /\ \E fm \in FoodManagerUpdate(foodManager, deltaTime, snake.segments, liveRnd) :
          FoodLiveCall("update", deltaTime, fm)

LiveForceSpawn ==
    \E fm \in forceSpawn(foodManager, snake.segments, liveRnd) :
       FoodLiveCall("forceSpawn", 0, fm)

LiveCheckCollisions(point) ==
    FoodLiveCall("checkCollisions", point,
                 FoodManagerCheckCollisions(foodManager, point, radius).fm)

LiveReset == FoodLiveCall("reset", 0, FoodManagerReset(foodManager))

PositiveUpdate == \E deltaTime \in LiveDeltaTimes \ {0} : LiveUpdate(deltaTime)

NextFoodLive ==
    \/ \E deltaTime \in LiveDeltaTimes : LiveUpdate(deltaTime)
    \/ LiveForceSpawn
    \/ \E point \in liveRnd.samples : LiveCheckCollisions(point)
    \/ LiveReset

SpecFoodLive == InitFoodLive /\ [][NextFoodLive]_vars /\ WF_vars(PositiveUpdate)

\* C28: an update that takes the timer to spawnInterval while fewer than
\* maxFoodCount active foods are held adds a food; and whenever fewer than
\* maxFoodCount active foods are held, an update adds one later on, unless
\* forceSpawn adds one or reset restarts the timer before
C28_FoodIsReplenished ==
    /\ [][(/\ hist'.event = "update"
           /\ foodManager.lastSpawnTime + hist'.arg >= SPAWN_INTERVAL
           /\ activeCount(foodManager) < MAX_FOOD_COUNT)
          => hist'.spawned]_vars
    /\ (activeCount(foodManager) < MAX_FOOD_COUNT)
          ~> (hist.spawned \/ hist.event \in {"forceSpawn", "reset"})

\* C28: an update has added a food to a manager that had been full and had
\* a food consumed
C28_SpawnAfterConsumption ==
    /\ hist.event = "update"
    /\ hist.spawned
    /\ Len(foodManager.foods) = MAX_FOOD_COUNT

---------------------------------------------------------------------------
(* One Food.spawn(bounds, existingPositions) call followed through its     *)
(* do-while loop (SpecSpawn): spawning is [food, bounds, existing,         *)
(* attempts, pc], pc being "sample" before the loop body, "test" before    *)
(* the loop condition and "done" after the return.                         *)

smallBounds == [x |-> 0, y |-> 0, width |-> 50 * PX, height |-> 50 * PX]

tinyBounds == [x |-> 0, y |-> 0, width |-> 20 * PX, height |-> 20 * PX]

SpawnBounds == {gameBounds, smallBounds, tinyBounds}

middle == Vec(25 * PX, 25 * PX)

SpawnSamples == {ahead, corner, Vec(corner.x + 20 * PX, corner.y), middle, Vec(10 * PX, 10 * PX)}

\* A manager holding one food at corner
heldFood ==
    [NewFoodManager(gameBounds) EXCEPT
        !.foods = <<[NewFood("normal") EXCEPT !.position = corner, !.isActive = TRUE]>>]

ExistingInputs ==
    {<<>>, <<middle>>, existingPositions(heldFood, initializeSegments(startPosition))}

InitSpawn ==
    /\ game = NewGame
    /\ snake = NewSnake(startPosition)
    /\ inputHandler = NewInputHandler
    /\ api = NewApi
    /\ foodManager = NewFoodManager(gameBounds)
    /\ spatialGrid = NoGrid
    /\ app = NewApp
    /\ snakeGame = NewSnakeGame
    /\ uiManager = createUI(NewApi)
    /\ hist = [event |-> "new"]
    /\ plan = [id |-> 0, pos |-> 0, left |-> 0]
    /\ spawning \in {[food |-> NewFood(type), bounds |-> b, existing |-> e,
                      attempts |-> 0, pc |-> "sample"] :
                        type \in FoodTypes, b \in SpawnBounds, e \in ExistingInputs}

SpawnStep(event, next) ==
    /\ spawning' = next
    /\ hist' = [event |-> event]
    /\ UNCHANGED <<game, snake, foodManager, inputHandler, api, spatialGrid, app, snakeGame,
                   uiManager, plan>>

\* The loop body: position = generateRandomPosition(bounds); attempts++
SpawnSample ==
    /\ spawning.pc = "sample"
    /\ \E p \in generateRandomPosition(spawning.food, spawning.bounds, SpawnSamples) :
          SpawnStep("sample", [spawning EXCEPT !.food.position = p,
                                               !.attempts = @ + 1,
                                               !.pc = "test"])

\* The loop condition holds: once more
SpawnRetry ==
    /\ spawning.pc = "test"
    /\ keepSampling(spawning.attempts,
                    isPositionTooClose(spawning.food, spawning.food.position,
                                       spawning.existing))
    /\ SpawnStep("retry", [spawning EXCEPT !.pc = "sample"])

\* The loop condition fails: isActive = true, animationTime = random, return
SpawnAccept ==
    /\ spawning.pc = "test"
    /\ ~keepSampling(spawning.attempts,
                     isPositionTooClose(spawning.food, spawning.food.position,
                                        spawning.existing))
    /\ \E t \in anyFood.phases :
          SpawnStep("accept", [spawning EXCEPT !.food.isActive = TRUE,
                                               !.food.animationTime = t,
                                               !.pc = "done"])

NextSpawn == SpawnSample \/ SpawnRetry \/ SpawnAccept

SpecSpawn == InitSpawn /\ [][NextSpawn]_vars

\* The call is not suspended: a step that can be taken is taken
SpecSpawnLive == SpecSpawn /\ WF_vars(NextSpawn)

\* C9: spawn samples at most 50 candidates and then returns with isActive =
\* true, keeping the last sampled candidate, whatever bounds and
\* existingPositions are, also when every candidate is too close; it never
\* loops forever
C9_SpawnReturnsWithinBudget ==
    /\ [][/\ spawning'.attempts <= maxAttempts
          /\ spawning'.pc = "done" => spawning'.food.position = spawning.food.position]_vars
    /\ <>(/\ spawning.pc = "done"
          /\ spawning.food.isActive
          /\ spawning.attempts \in 1..maxAttempts)

\* C9: spawn has returned after 50 candidates that were all too close
C9_BudgetExhausted ==
    /\ spawning.pc = "done"
    /\ spawning.attempts = maxAttempts
    /\ spawning.food.isActive
    /\ \E i \in 1..Len(spawning.existing) :
          distanceSquared(spawning.food.position, spawning.existing[i])
             < (spawning.food.radius * 4) * (spawning.food.radius * 4)

\* C10: a position accepted before the 50 attempts are used up is at least
\* radius * 4 from every existing position
C10_AcceptedPositionIsClear ==
    (spawning.pc = "done" /\ spawning.attempts < maxAttempts)
    => \A i \in 1..Len(spawning.existing) :
          distanceSquared(spawning.food.position, spawning.existing[i])
             >= (spawning.food.radius * 4) * (spawning.food.radius * 4)

\* C10: a position has been accepted after a rejection, against the worm's
\* segments and a held food
C10_AcceptedAfterRejection ==
    /\ spawning.pc = "done"
    /\ spawning.attempts > 1
    /\ spawning.attempts < maxAttempts
    /\ Len(spawning.existing) > INITIAL_LENGTH

---------------------------------------------------------------------------
(* A SpatialGrid on its own: created with one of GridOrigins and            *)
(* GridCellSizes, then at most MaxGridOps calls of insert, clear and        *)
(* getNearbyPoints (SpecGrid).  hist is [event, inserted, position, radius, *)
(* returned]: the call, the points inserted since the last clear, and the   *)
(* arguments and the result of the last getNearbyPoints.                    *)

MaxGridOps == 3

GridOrigins == {Vec(0, 0), Vec(1, -1)}

GridCellSizes == {2, 3}

GridPoints == {Vec(-5, 0), Vec(-3, -2), Vec(-1, 0), Vec(0, -2), Vec(2, 0), Vec(4, 3)}

GridQueries == {Vec(-4, -1), Vec(-1, 0), Vec(1, 1), Vec(3, 0)}

GridRadii == {0, 2, 3}

InitGrid ==
    /\ game = NewGame
    /\ snake = NewSnake(startPosition)
    /\ inputHandler = NewInputHandler
    /\ api = NewApi
    /\ foodManager = NewFoodManager(gameBounds)
    /\ spawning = NoSpawn
    /\ app = NewApp
    /\ snakeGame = NewSnakeGame
    /\ uiManager = createUI(NewApi)
    /\ spatialGrid \in {NewSpatialGrid([gameBounds EXCEPT !.x = o.x, !.y = o.y], c) :
                           o \in GridOrigins, c \in GridCellSizes}
    /\ hist = [event |-> "new", inserted |-> <<>>, position |-> Vec(0, 0),
               radius |-> 0, returned |-> <<>>]
    /\ plan = [id |-> 0, pos |-> 0, left |-> MaxGridOps]

GridCall(event, sg, h) ==
    /\ plan.left > 0
    /\ plan' = [plan EXCEPT !.left = @ - 1]
    /\ spatialGrid' = sg
    /\ hist' = [h EXCEPT !.event = event]
    /\ UNCHANGED <<game, snake, foodManager, inputHandler, api, spawning, app, snakeGame,
                   uiManager>>

CallInsert(position) ==
    GridCall("insert", insert(spatialGrid, position),
             [hist EXCEPT !.inserted = Append(@, position)])

CallClear == GridCall("clear", clear(spatialGrid), [hist EXCEPT !.inserted = <<>>])

CallGetNearbyPoints(position, r) ==
    GridCall("getNearbyPoints", spatialGrid,
             [hist EXCEPT !.position = position, !.radius = r,
                          !.returned = getNearbyPoints(spatialGrid, position, r)])

NextGrid ==
    \/ \E position \in GridPoints : CallInsert(position)
    \/ CallClear
    \/ \E position \in GridQueries, r \in GridRadii : CallGetNearbyPoints(position, r)

SpecGrid == InitGrid /\ [][NextGrid]_vars

\* C16: getNearbyPoints(position, radius) returns every point inserted since
\* the last clear that lies within radius of position, coordinates below the
\* grid origin included
C16_NoFalseNegatives ==
    hist.event = "getNearbyPoints"
    => \A i \in 1..Len(hist.inserted) :
          distanceSquared(hist.inserted[i], hist.position) <= hist.radius * hist.radius
          => \E j \in 1..Len(hist.returned) : hist.returned[j] = hist.inserted[i]

\* C16: a query has returned a point within its radius that lies below the
\* grid origin, in a cell other than the cell of the query
C16_NearPointBelowOrigin ==
    /\ hist.event = "getNearbyPoints"
    /\ \E i \in 1..Len(hist.inserted) :
          /\ hist.inserted[i].x < spatialGrid.bounds.x
          /\ distanceSquared(hist.inserted[i], hist.position)
                <= hist.radius * hist.radius
          /\ getGridKey(spatialGrid, hist.inserted[i])
                # getGridKey(spatialGrid, hist.position)
          /\ \E j \in 1..Len(hist.returned) : hist.returned[j] = hist.inserted[i]

---------------------------------------------------------------------------
(* An InputHandler on its own: any set of the game's keys is held when it  *)
(* is first looked at, then at most MaxInputOps of keydown, keyup, blur    *)
(* and update() follow (SpecInput).  hist is [event, key].                 *)

MaxInputOps == 1

InitInput ==
    /\ game = NewGame
    /\ snake = NewSnake(startPosition)
    /\ foodManager = NewFoodManager(gameBounds)
    /\ api = NewApi
    /\ spawning = NoSpawn
    /\ spatialGrid = NoGrid
    /\ app = NewApp
    /\ snakeGame = NewSnakeGame
    /\ uiManager = createUI(NewApi)
    /\ \E held \in SUBSET Keys :
          inputHandler = updateInputState([NewInputHandler EXCEPT !.keyStates = held])
    /\ hist = [event |-> "new", key |-> ""]
    /\ plan = [id |-> 0, pos |-> 0, left |-> MaxInputOps]

InputCall(event, key, ih) ==
    /\ plan.left > 0
    /\ plan' = [plan EXCEPT !.left = @ - 1]
    /\ inputHandler' = ih
    /\ hist' = [event |-> event, key |-> key]
    /\ UNCHANGED <<game, snake, foodManager, api, spawning, spatialGrid, app, snakeGame,
                   uiManager>>

CallHandleKeyDown(key) == InputCall("keydown", key, handleKeyDown(inputHandler, key))

CallHandleKeyUp(key) == InputCall("keyup", key, handleKeyUp(inputHandler, key))

CallInputUpdate == InputCall("update", "", InputUpdate(inputHandler))

CallResetInputState == InputCall("blur", "", resetInputState(inputHandler))

NextInput ==
    \/ \E key \in Keys : CallHandleKeyDown(key)
    \/ \E key \in Keys : CallHandleKeyUp(key)
    \/ CallInputUpdate
    \/ CallResetInputState

SpecInput == InitInput /\ [][NextInput]_vars

\* the sum of the unit vectors of the directions that have a key held
heldSum(ih) ==
    LET held(arrow, letter) == isKeyPressed(ih, arrow) \/ isKeyPressed(ih, letter)
        plus(v, on, unit) == IF on THEN add(v, unit) ELSE v
    IN  plus(plus(plus(plus(Vec(0, 0),
                            held("ArrowUp", "KeyW"), Vec(0, -DIRSCALE)),
                       held("ArrowDown", "KeyS"), Vec(0, DIRSCALE)),
                  held("ArrowLeft", "KeyA"), Vec(-DIRSCALE, 0)),
             held("ArrowRight", "KeyD"), Vec(DIRSCALE, 0))

\* getDirectionVector() as a vector
directionVector(ih) ==
    LET d == getDirectionVector(ih)
    IN  IF d.mag = 0 THEN Vec(0, 0) ELSE fromAngle(d.h)

\* C22: for every set of held keys getDirectionVector() is the normalized
\* sum of the unit vectors of the held directions: the zero vector when the
\* held directions cancel, a diagonal unit vector for two orthogonal
\* directions, and of magnitude 0 or 1 always
C22_NormalizedSumOfHeldDirections ==
    LET sum == heldSum(inputHandler)
        v == directionVector(inputHandler)
    IN  /\ v = normalize(sum)
        /\ sum = Vec(0, 0) => v = Vec(0, 0)
        /\ (sum.x # 0 /\ sum.y # 0)
              => v = Vec((sum.x \div DIRSCALE) * SQRT_HALF, (sum.y \div DIRSCALE) * SQRT_HALF)
        /\ \/ v = Vec(0, 0)
           \/ /\ magnitudeSquared(v) <= DIRSCALE * DIRSCALE
              /\ magnitudeSquared(v) > (DIRSCALE - 2) * (DIRSCALE - 2)

\* C22: after a keydown W, S and the right arrow are held and no key for
\* left: up and down cancel and the result is the unit vector to the right
C22_OppositeKeysCancelled ==
    /\ hist.event = "keydown"
    /\ {"KeyW", "KeyS", "ArrowRight"} \subseteq inputHandler.keyStates
    /\ ~isKeyPressed(inputHandler, "ArrowLeft") /\ ~isKeyPressed(inputHandler, "KeyA")
    /\ getDirectionVector(inputHandler) = [mag |-> 1, h |-> right]

---------------------------------------------------------------------------
(* The React App on its own (SpecApp): it mounts with or without a stored  *)
(* session, then the user presses buttons and submits the forms, the       *)
(* requests answer, the mounted SnakeGame reaches game over and its        *)
(* timeout fires, in any order.  A SnakeGame is mounted while the screen   *)
(* is 'game' and starts from NewSnakeGame each time; the steps of a game   *)
(* up to the collision are those of SpecSnakeGame and are not repeated     *)
(* here.  hist is [event].                                                 *)

\* timeouts of onGameEnd pending at the same time
MaxTimers == 1

Forms == {<<"guest", "guest-entry">>, <<"login", "login">>, <<"register", "register">>}

InitApp ==
    /\ game = NewGame
    /\ snake = NewSnake(startPosition)
    /\ foodManager = NewFoodManager(gameBounds)
    /\ inputHandler = NewInputHandler
    /\ api = NewApi
    /\ spawning = NoSpawn
    /\ spatialGrid = NoGrid
    /\ app \in {NewApp, restoreSession(NewApp)}
    /\ snakeGame = NewSnakeGame
    /\ uiManager = createUI(NewApi)
    /\ hist = [event |-> "mount"]
    /\ plan = [id |-> 0, pos |-> 0, left |-> 0]

\* a step of the App to a; a change of screen unmounts the SnakeGame
AppStep(event, a) ==
    /\ app' = a
    /\ snakeGame' = IF a.currentScreen = app.currentScreen THEN snakeGame ELSE NewSnakeGame
    /\ hist' = [event |-> event]
    /\ UNCHANGED <<game, snake, foodManager, inputHandler, api, spawning, spatialGrid,
                   uiManager, plan>>

Click(from, to) ==
    /\ app.currentScreen = from
    /\ AppStep("click", [app EXCEPT !.currentScreen = to])

Logout ==
    /\ app.currentScreen = "menu"
    /\ AppStep("logout", handleLogout(app))

\* the form of the screen is submitted and its request is sent
SubmitForm(kind, screen) ==
    /\ app.currentScreen = screen
    /\ kind \notin app.requests
    /\ AppStep("submit", [app EXCEPT !.requests = @ \cup {kind}])

RequestSucceeded(kind) ==
    /\ kind \in app.requests
    /\ LET a == [app EXCEPT !.requests = @ \ {kind}]
       IN  AppStep("success",
                   CASE kind = "guest" -> handleGuestSuccess(a)
                     [] kind = "login" -> handleLoginSuccess(a)
                     [] OTHER -> handleRegisterSuccess(a))

RequestFailed(kind) ==
    /\ kind \in app.requests
    /\ AppStep("failure", [app EXCEPT !.requests = @ \ {kind}])

\* the game loop finds the new head on the snake, and the effect on
\* isGameOver sets the timeout of onGameEnd
SnakeGameOver ==
    /\ app.currentScreen = "game"
    /\ ~snakeGame.isGameOver
    /\ app.timers < MaxTimers
    /\ app' = [app EXCEPT !.timers = @ + 1]
    /\ snakeGame' = [snakeGame EXCEPT !.isGameOver = TRUE]
    /\ hist' = [event |-> "gameOver"]
    /\ UNCHANGED <<game, snake, foodManager, inputHandler, api, spawning, spatialGrid,
                   uiManager, plan>>

\* the timeout fires: onGameEnd is App's handleGameEnd
GameEndTimeout ==
    /\ app.timers > 0
    /\ AppStep("onGameEnd", handleGameEnd([app EXCEPT !.timers = @ - 1]))

NextApp ==
    \/ \E b \in Buttons : Click(b[1], b[2])
    \/ Logout
    \/ \E f \in Forms : SubmitForm(f[1], f[2])
    \/ \E f \in Forms : RequestSucceeded(f[1])
    \/ \E f \in Forms : RequestFailed(f[1])
    \/ SnakeGameOver
    \/ GameEndTimeout

SpecApp == InitApp /\ [][NextApp]_vars

\* C23: the 'game' screen is never shown while userSession is null
C23_GameOnlyWithSession == app.currentScreen = "game" => app.userSession # "null"

\* C23: the results of a game are shown after the user has logged out
C23_ResultsAfterLogout ==
    /\ hist.event = "onGameEnd"
    /\ app.currentScreen = "results"
    /\ app.userSession = "null"

---------------------------------------------------------------------------
(* A mounted SnakeGame on its own (SpecSnakeGame): it starts from one of   *)
(* StartGames, states that a new game reaches by steps and turns without   *)
(* eating, and then at most MaxSnakeGameOps callbacks run: the game loop's *)
(* interval, the timer's interval and keydown.  hist is [event, before,    *)
(* newHead]: the callback, the gameState before it and the head the game   *)
(* loop computed.                                                          *)

MaxSnakeGameOps == 9

\* a one-cell snake at head going in direction after gameTime seconds
startGame(head, direction, gameTime) ==
    [NewSnakeGame EXCEPT !.snake = <<head>>, !.direction = direction,
                         !.nextDirection = direction, !.gameTime = gameTime]

\* the new game; next to the first food, early and late; at the right and
\* at the top edge of the grid, going out
StartGames ==
    {NewSnakeGame,
     startGame(<<34, 18>>, <<1, 0>>, 1),
     startGame(<<34, 18>>, <<1, 0>>, 32),
     startGame(<<GRID_WIDTH - 1, 12>>, <<1, 0>>, 2),
     startGame(<<25, 0>>, <<0, -1>>, 1)}

\* Math.random for the cell of the next food
FoodCells == {<<36, 18>>, <<37, 18>>, <<0, 0>>}

SnakeGameKeys == {"arrowup", "s", "arrowleft", "d", " "}

InitSnakeGame ==
    /\ game = NewGame
    /\ snake = NewSnake(startPosition)
    /\ foodManager = NewFoodManager(gameBounds)
    /\ inputHandler = NewInputHandler
    /\ api = NewApi
    /\ spawning = NoSpawn
    /\ spatialGrid = NoGrid
    /\ app = [restoreSession(NewApp) EXCEPT !.currentScreen = "game"]
    /\ snakeGame \in StartGames
    /\ uiManager = createUI(NewApi)
    /\ hist = [event |-> "mount", before |-> snakeGame, newHead |-> snakeGame.snake[1]]
    /\ plan = [id |-> 0, pos |-> 0, left |-> MaxSnakeGameOps]

SnakeGameCall(event, g) ==
    /\ plan.left > 0
    /\ plan' = [plan EXCEPT !.left = @ - 1]
    /\ snakeGame' = g
    /\ hist' = [event |-> event, before |-> snakeGame,
                newHead |-> LET head == snakeGame.snake[1]
                                direction == snakeGame.nextDirection
                            IN  <<head[1] + direction[1], head[2] + direction[2]>>]
    /\ UNCHANGED <<game, snake, foodManager, inputHandler, api, spawning, spatialGrid, app,
                   uiManager>>

\* the intervals run while the game is neither over nor paused
GameLoopInterval(newFood) ==
    /\ ~snakeGame.isGameOver /\ ~snakeGame.isPaused
    /\ SnakeGameCall("gameLoop", gameLoopStep(snakeGame, newFood))

TimerInterval ==
    /\ ~snakeGame.isGameOver /\ ~snakeGame.isPaused
    /\ SnakeGameCall("timer", timerStep(snakeGame))

SnakeGameKeyDown(key) == SnakeGameCall("keydown", snakeGameKeyDown(snakeGame, key))

NextSnakeGame ==
    \/ \E newFood \in FoodCells : GameLoopInterval(newFood)
    \/ TimerInterval
    \/ \E key \in SnakeGameKeys : SnakeGameKeyDown(key)

SpecSnakeGame == InitSnakeGame /\ [][NextSnakeGame]_vars

\* the head would leave the grid
beyondEdge(cell) ==
    \/ cell[1] < 0 \/ cell[1] >= GRID_WIDTH
    \/ cell[2] < 0 \/ cell[2] >= GRID_HEIGHT

\* C24: a step of the game loop that would take the head beyond an edge of
\* the grid, or onto a cell of the snake, ends the game
C24_WallOrBodyEndsGame ==
    (/\ hist.event = "gameLoop"
     /\ \/ beyondEdge(hist.newHead)
        \/ \E i \in 1..Len(hist.before.snake) : hist.before.snake[i] = hist.newHead)
    => snakeGame.isGameOver

\* C24: the snake has run into its own body and the game is over
C24_RanIntoItself ==
    /\ hist.event = "gameLoop"
    /\ snakeGame.isGameOver
    /\ Len(snakeGame.snake) >= 4

\* C25: a step that eats the food adds 10 to the score, and 10 more when
\* the food is the third, sixth, ... one, and 1 to foodCount; every other
\* callback leaves score and foodCount as they are
C25_TenPointsAndBonus ==
    LET ate == /\ hist.event = "gameLoop"
               /\ ~snakeGame.isGameOver
               /\ snakeGame.snake[1] = hist.before.food
    IN  IF ate
        THEN /\ snakeGame.foodCount = hist.before.foodCount + 1
             /\ snakeGame.score = hist.before.score + 10
                                  + (IF snakeGame.foodCount % 3 = 0 THEN 10 ELSE 0)
        ELSE \/ hist.event = "mount"
             \/ /\ snakeGame.score = hist.before.score
                /\ snakeGame.foodCount = hist.before.foodCount

\* C25: a third food has been eaten
C25_ThirdFoodEaten ==
    /\ hist.event = "gameLoop"
    /\ snakeGame.foodCount = 3
    /\ hist.before.foodCount = 2

---------------------------------------------------------------------------
(* init(), start() and stop() called between the animation frames          *)
(* (SpecLoop): any interleaving of the three methods and of the browser    *)
(* running a callback it holds, at most MaxLoopOps steps, no key pressed.   *)
(* hist is that of Spec with wasRunning, isRunning before the step.         *)

MaxLoopOps == 8

InitLoop ==
    /\ game = NewGame
    /\ snake = NewSnake(startPosition)
    /\ foodManager = NewFoodManager(gameBounds)
    /\ inputHandler = NewInputHandler
    /\ api = NewApi
    /\ spawning = NoSpawn
    /\ spatialGrid = NoGrid
    /\ app = NewApp
    /\ snakeGame = NewSnakeGame
    /\ uiManager = createUI(NewApi)
    /\ hist = [event |-> "new", before |-> "playing", held |-> {}, note |-> NewNote(0),
               wasRunning |-> FALSE]
    /\ plan = [id |-> 0, pos |-> 0, left |-> MaxLoopOps]

LoopCall(r, event) ==
    /\ plan.left > 0
    /\ plan' = [plan EXCEPT !.left = @ - 1]
    /\ game' = r.w.game
    /\ snake' = r.w.snake
    /\ foodManager' = r.w.fm
    /\ api' = r.w.api
    /\ inputHandler' = r.ih
    /\ hist' = [event |-> event, before |-> game.gameState,
                held |-> inputHandler.keyStates, note |-> r.w.note,
                wasRunning |-> game.isRunning]
    /\ UNCHANGED <<spawning, spatialGrid, app, snakeGame, uiManager>>

CallInit == \E r \in init(World, inputHandler, cornerFood) : LoopCall(r, "init")

CallStart == \E r \in start(World, inputHandler, cornerFood) : LoopCall(r, "start")

CallStop == LoopCall([w |-> stop(World), ih |-> inputHandler], "stop")

\* The browser runs a callback it holds, 1000/30 ms after the last frame
AnimationFrame ==
    \E id \in game.scheduled :
       \E r \in gameLoop([World EXCEPT !.game.scheduled = @ \ {id}], inputHandler,
                         MAX_DELTA_TIME, cornerFood) :
          LoopCall(r, IF game.isRunning THEN "update" ELSE "frame")

NextLoop ==
    \/ CallInit
    \/ CallStart
    \/ CallStop
    \/ AnimationFrame

SpecLoop == InitLoop /\ [][NextLoop]_vars

\* C37: the browser never holds more than one game loop callback: it holds
\* one while the loop is running and none after stop(), so that no tick
\* runs until the next start(); start() and init() called while the loop is
\* running request no callback, and no callback runs update() while the
\* loop is stopped
C37_OneLoopCallback ==
    /\ [](/\ Cardinality(game.scheduled) <= 1
          /\ game.isRunning <=> game.scheduled # {}
          /\ hist.event # "frame")
    /\ [][(hist'.event \in {"start", "init"} /\ game.isRunning)
             => game'.scheduled = game.scheduled]_vars

\* C37: start() has started the loop again after stop() had stopped a loop
\* that had moved the worm
C37_StartedAgainAfterStop ==
    /\ hist.event = "start"
    /\ ~hist.wasRunning
    /\ game.isRunning
    /\ game.scheduled = {game.animationFrameId}
    /\ getHead(snake) # startPosition

---------------------------------------------------------------------------
(* The application from its start (SpecMain): Application.init() has made   *)
(* the ApiService, the UserSessionManager, the UIManager and the Game from  *)
(* any stored session and token; then the user clicks what is shown, the    *)
(* calls answer and the browser runs the animation frames, at most          *)
(* MaxMainFrames of them.  A call in flight answers, and a frame callback   *)
(* held by the browser runs, sooner or later; nothing makes the user click. *)
(* hist is that of Spec with stored, isLoggedIn() at the creation of the    *)
(* UI.                                                                      *)

MaxMainFrames == 3

MaxLoading == 1

InitMain ==
    /\ game = NewGame
    /\ snake = NewSnake(startPosition)
    /\ foodManager = NewFoodManager(gameBounds)
    /\ inputHandler = NewInputHandler
    /\ api \in {[NewApi EXCEPT !.session = session, !.token = token] :
                   session \in Sessions, token \in BOOLEAN}
    /\ spawning = NoSpawn
    /\ spatialGrid = NoGrid
    /\ app = NewApp
    /\ snakeGame = NewSnakeGame
    /\ uiManager = createUI(api)
    /\ hist = [event |-> "new", before |-> "playing", held |-> {}, note |-> NewNote(0),
               stored |-> isLoggedIn(api)]
    /\ plan = [id |-> 0, pos |-> 0, left |-> MaxMainFrames]

MainStep(event, u, w, ih) ==
    /\ uiManager' = u
    /\ game' = w.game
    /\ snake' = w.snake
    /\ foodManager' = w.fm
    /\ api' = w.api
    /\ inputHandler' = ih
    /\ hist' = [event |-> event, before |-> game.gameState,
                held |-> inputHandler.keyStates, note |-> w.note, stored |-> hist.stored]
    /\ UNCHANGED <<spawning, spatialGrid, app, snakeGame>>

\* The login or register form is submitted, or Play as Guest is clicked
SubmitAuth(kind) ==
    /\ uiManager.shown = (IF kind = "register" THEN "register" ELSE "login")
    /\ kind \notin uiManager.requests
    /\ MainStep(kind, [uiManager EXCEPT !.requests = @ \cup {kind}], World, inputHandler)
    /\ UNCHANGED plan

AuthResolved(kind) ==
    /\ kind \in uiManager.requests
    /\ \E r \in authResolved(uiManager, World, inputHandler, kind, cornerFood) :
          MainStep("resolved", r.u, r.w, r.ih)
    /\ UNCHANGED plan

\* The catch of handleLogin(), handleRegister() and handleGuestLogin()
AuthRejected(kind) ==
    /\ kind \in uiManager.requests
    /\ MainStep("rejected", [uiManager EXCEPT !.requests = @ \ {kind}], World,
                inputHandler)
    /\ UNCHANGED plan

ClickShowRegister ==
    /\ uiManager.shown = "login"
    /\ MainStep("showRegister", showRegisterScreen(uiManager), World, inputHandler)
    /\ UNCHANGED plan

ClickShowLogin ==
    /\ uiManager.shown = "register"
    /\ MainStep("showLogin", showLoginScreen(uiManager), World, inputHandler)
    /\ UNCHANGED plan

ClickViewLeaderboard ==
    /\ uiManager.shown = "game"
    /\ uiManager.loading < MaxLoading
    /\ MainStep("showLeaderboard", showLeaderboard(uiManager), World, inputHandler)
    /\ UNCHANGED plan

LeaderboardLoaded ==
    /\ uiManager.loading > 0
    /\ MainStep("leaderboardLoaded", leaderboardLoaded(uiManager), World, inputHandler)
    /\ UNCHANGED plan

ClickBackToGame ==
    /\ uiManager.shown = "leaderboard"
    /\ MainStep("hideLeaderboard", hideLeaderboard(uiManager), World, inputHandler)
    /\ UNCHANGED plan

\* handleLogout()
ClickLogout ==
    /\ uiManager.shown = "game"
    /\ MainStep("logout", showLoginScreen(uiManager),
                [World EXCEPT !.api = clearSession(@)], inputHandler)
    /\ UNCHANGED plan

\* The browser runs a callback it holds, 1000/30 ms after the last frame
MainFrame ==
    /\ plan.left > 0
    /\ plan' = [plan EXCEPT !.left = @ - 1]
    /\ \E id \in game.scheduled :
          \E r \in gameLoop([World EXCEPT !.game.scheduled = @ \ {id}], inputHandler,
                            MAX_DELTA_TIME, cornerFood) :
             MainStep(IF game.isRunning THEN "update" ELSE "frame", uiManager, r.w, r.ih)

Answered ==
    \/ \E kind \in AuthKinds : AuthResolved(kind) \/ AuthRejected(kind)
    \/ LeaderboardLoaded

NextMain ==
    \/ \E kind \in AuthKinds : SubmitAuth(kind)
    \/ \E kind \in AuthKinds : AuthResolved(kind)
    \/ \E kind \in AuthKinds : AuthRejected(kind)
    \/ ClickShowRegister
    \/ ClickShowLogin
    \/ ClickViewLeaderboard
    \/ LeaderboardLoaded
    \/ ClickBackToGame
    \/ ClickLogout
    \/ MainFrame

SpecMain ==
    InitMain /\ [][NextMain]_vars /\ WF_vars(Answered) /\ WF_vars(MainFrame)

\* C38: when a session and a token are stored at the start of the
\* application, the game loop is running sooner or later
C38_StoredSessionStartsGame == hist.stored ~> game.isRunning

\* C38: with a stored session and token the game UI is shown, the
\* leaderboard has been opened and closed again, and the game has not been
\* started
C38_GameShownNotStarted ==
    /\ hist.stored
    /\ hist.event = "hideLeaderboard"
    /\ isLoggedIn(api)
    /\ isGameScreen(uiManager)
    /\ uiManager.requests = {}
    /\ ~game.isRunning

=============================================================================
